---- MODULE Spec2Model ----
(***************************************************************************)
(* Streaming TTS WebSocket service: per-connection session handlers        *)
(* (src/main.py) over the ConnectionManager registry and the TTSEngine     *)
(* (src/tts_engine.py).                                                    *)
(*                                                                         *)
(* Text is a sequence of one-character strings.  The asyncio event loop is *)
(* single threaded: a handler runs from one suspension point (an await     *)
(* that really yields: receive_text, send_text) to the next as one step.   *)
(* The backend call inside generate_audio_with_alignment has no such       *)
(* await; it is shown as a state of its own (pc = "synth") in which the    *)
(* loop is occupied by the calling session.                                *)
(***************************************************************************)
EXTENDS Integers, Sequences, FiniteSets, TLC

VARIABLES
    active_connections,  \* ConnectionManager.active_connections (its key set)
    session_data,        \* ConnectionManager.session_data: id -> record
    ready,               \* TTSEngine.ready
    pc,                  \* position of each websocket_endpoint coroutine
    cur,                 \* locals of the handler while a pass is in progress
    inbox,               \* inbound frames not yet returned by receive_text
    transport,           \* "open" / "closed": the client side of the socket
    running,             \* session whose synchronous call occupies the loop
    out,                 \* messages delivered to each client, in order
    handled,             \* inbound frames whose handling has begun, in order
    passes,              \* backend calls made for each session, in order
    calls                \* registry and policy functions called directly

vars == <<active_connections, session_data, ready, pc, cur, inbox, transport,
          running, out, handled, passes, calls>>

----------------------------------------------------------------------------
(* Bounds of the model *)

\* Inbound frames the clients send in one run, all sessions together.
MaxArrivals == 2

Sessions == {"s1", "s2"}

NoSession == "none"

----------------------------------------------------------------------------
(* Characters and Python str helpers *)

LowerCase == {"a", "b", "c", "d", "e", "f", "g", "h", "i", "j", "k", "l", "m",
              "n", "o", "p", "q", "r", "s", "t", "u", "v", "w", "x", "y", "z"}

UpperCase == {"A", "B", "C", "D", "E", "F", "G", "H", "I", "J", "K", "L", "M",
              "N", "O", "P", "Q", "R", "S", "T", "U", "V", "W", "X", "Y", "Z"}

Digits == {"0", "1", "2", "3", "4", "5", "6", "7", "8", "9"}

IsSpace(c) == c \in {" ", "\t", "\n"}

\* [a-zA-Z]
IsAlpha(c) == c \in LowerCase \cup UpperCase

IsDigit(c) == c \in Digits

\* \w of Python's re on str
IsWordChar(c) == IsAlpha(c) \/ IsDigit(c) \/ c = "_"

UpperToLower == [c \in UpperCase |->
    CASE c = "A" -> "a" [] c = "B" -> "b" [] c = "C" -> "c" [] c = "D" -> "d"
      [] c = "E" -> "e" [] c = "F" -> "f" [] c = "G" -> "g" [] c = "H" -> "h"
      [] c = "I" -> "i" [] c = "J" -> "j" [] c = "K" -> "k" [] c = "L" -> "l"
      [] c = "M" -> "m" [] c = "N" -> "n" [] c = "O" -> "o" [] c = "P" -> "p"
      [] c = "Q" -> "q" [] c = "R" -> "r" [] c = "S" -> "s" [] c = "T" -> "t"
      [] c = "U" -> "u" [] c = "V" -> "v" [] c = "W" -> "w" [] c = "X" -> "x"
      [] c = "Y" -> "y" [] c = "Z" -> "z"]

\* case folding of re.IGNORECASE
Lower(c) == IF c \in DOMAIN UpperToLower THEN UpperToLower[c] ELSE c

\* str.strip(): the text between its first and its last character that is
\* not whitespace
Strip(t) ==
    LET solid == {i \in 1..Len(t) : ~IsSpace(t[i])}
    IN  IF solid = {} THEN <<>>
        ELSE SubSeq(t, CHOOSE i \in solid : \A j \in solid : i <= j,
                       CHOOSE i \in solid : \A j \in solid : j <= i)

\* `not text.strip()`
IsBlank(t) == Strip(t) = <<>>

----------------------------------------------------------------------------
(* A matcher for the regular expressions of the source.  A pattern is a    *)
(* sequence of atoms: a character class with a quantifier (greedy, with    *)
(* backtracking, as Python's re), the assertion \b, or the opening or      *)
(* closing parenthesis of a capture group.                                 *)

\* The element of a one-element set
Only(S) == CHOOSE x \in S : TRUE

Min(S) == CHOOSE x \in S : \A y \in S : x <= y

Max(S) == CHOOSE x \in S : \A y \in S : y <= x

\* The n-th element of a set of numbers
Nth(S, n) == CHOOSE x \in S : Cardinality({y \in S : y < x}) = n - 1

\* sum(q) of a sequence of numbers
RECURSIVE SumSeq(_)
SumSeq(q) == IF q = <<>> THEN 0 ELSE Head(q) + SumSeq(Tail(q))

\* A character class; q is "1", "?", "*" or "+".
Cls(chars, q) ==
    [k |-> "cls", neg |-> FALSE, chars |-> chars, q |-> q, g |-> 0, s |-> <<>>]

\* [^...]
NotCls(chars, q) ==
    [k |-> "cls", neg |-> TRUE, chars |-> chars, q |-> q, g |-> 0, s |-> <<>>]

\* A literal string s
Lit(s) == [k |-> "lit", neg |-> FALSE, chars |-> {}, q |-> "1", g |-> 0, s |-> s]

\* A literal string s under re.IGNORECASE
LitIgnoreCase(s) ==
    [k |-> "liti", neg |-> FALSE, chars |-> {}, q |-> "1", g |-> 0, s |-> s]

\* \b
WordB == [k |-> "b", neg |-> FALSE, chars |-> {}, q |-> "1", g |-> 0, s |-> <<>>]

\* ( and ) of group g
Open(g) == [k |-> "open", neg |-> FALSE, chars |-> {}, q |-> "1", g |-> g, s |-> <<>>]

Close(g) ==
    [k |-> "close", neg |-> FALSE, chars |-> {}, q |-> "1", g |-> g, s |-> <<>>]

\* (atoms) as group g
Group(g, atoms) == <<Open(g)>> \o atoms \o <<Close(g)>>

AlNum == LowerCase \cup UpperCase \cup Digits

Alpha == LowerCase \cup UpperCase

\* \s
Space == {" ", "\t", "\n"}

AtomAccepts(a, c) == IF a.neg THEN c \notin a.chars ELSE c \in a.chars

\* \b between text[i-1] and text[i]
IsWordBoundary(text, i) ==
    LET before == i > 1 /\ i - 1 <= Len(text) /\ IsWordChar(text[i - 1])
        after == i >= 1 /\ i <= Len(text) /\ IsWordChar(text[i])
    IN  before /= after

\* text[i:].startswith(s)
StartsWithAt(text, i, s) ==
    /\ i + Len(s) - 1 <= Len(text)
    /\ \A k \in 1..Len(s) : text[i + k - 1] = s[k]

StartsWithAtIgnoreCase(text, i, s) ==
    /\ i + Len(s) - 1 <= Len(text)
    /\ \A k \in 1..Len(s) : Lower(text[i + k - 1]) = Lower(s[k])

\* The number of consecutive characters from i that the class a accepts, at
\* most one for the quantifiers "1" and "?".
RunLen(text, i, a) ==
    LET stop == {j \in i..Len(text) : ~AtomAccepts(a, text[j])}
        run == IF stop = {} THEN Len(text) - i + 1 ELSE Min(stop) - i
    IN  IF a.q \in {"*", "+"} \/ run = 0 THEN run ELSE 1

\* Captures: where each group opened, and what it matched.
NoCaptures == [s1 |-> 0, s2 |-> 0, g1 |-> <<>>, g2 |-> <<>>]

NoMatch == [ok |-> FALSE, end |-> 0, c |-> NoCaptures]

\* Match atoms k.. of re against text at position i; the result of the
\* first successful path in the matcher's order (longest repetition first).
RECURSIVE MatchFrom(_, _, _, _, _)
MatchFrom(re, k, text, i, c) ==
    IF k > Len(re) THEN [ok |-> TRUE, end |-> i, c |-> c]
    ELSE LET a == re[k] IN
         CASE a.k = "b" ->
                IF IsWordBoundary(text, i)
                THEN MatchFrom(re, k + 1, text, i, c)
                ELSE NoMatch
           [] a.k = "lit" ->
                IF StartsWithAt(text, i, a.s)
                THEN MatchFrom(re, k + 1, text, i + Len(a.s), c)
                ELSE NoMatch
           [] a.k = "liti" ->
                IF StartsWithAtIgnoreCase(text, i, a.s)
                THEN MatchFrom(re, k + 1, text, i + Len(a.s), c)
                ELSE NoMatch
           [] a.k = "open" ->
                MatchFrom(re, k + 1, text, i,
                          IF a.g = 1 THEN [c EXCEPT !.s1 = i]
                          ELSE [c EXCEPT !.s2 = i])
           [] a.k = "close" ->
                MatchFrom(re, k + 1, text, i,
                          IF a.g = 1
                          THEN [c EXCEPT !.g1 = SubSeq(text, c.s1, i - 1)]
                          ELSE [c EXCEPT !.g2 = SubSeq(text, c.s2, i - 1)])
           [] OTHER ->
                LET run == RunLen(text, i, a)
                    lo == IF a.q \in {"1", "+"} THEN 1 ELSE 0
                    good == {n \in lo..run :
                                MatchFrom(re, k + 1, text, i + n, c).ok}
                IN  IF good = {} THEN NoMatch
                    ELSE MatchFrom(re, k + 1, text, i + Max(good), c)

\* The alternatives of a pattern are tried in order at one position.
MatchAlt(alts, text, i) ==
    LET hits == {n \in 1..Len(alts) :
                    MatchFrom(alts[n], 1, text, i, NoCaptures).ok}
    IN  IF hits = {} THEN NoMatch
        ELSE MatchFrom(alts[Min(hits)], 1, text, i, NoCaptures)

\* A replacement template is a sequence of parts: a literal text, or the
\* reference <<"G1">> or <<"G2">> to a group.
Expand(repl, c) ==
    LET part(n) == IF n > Len(repl) THEN <<>>
                   ELSE IF repl[n] = <<"G1">> THEN c.g1
                   ELSE IF repl[n] = <<"G2">> THEN c.g2
                   ELSE repl[n]
    IN  part(1) \o part(2) \o part(3) \o part(4) \o part(5)

\* re.sub scanning text from position a until the scan has reached b: the
\* text it puts out and the position it has reached (leftmost matches, not
\* overlapping; a position no match starts at is copied).  The range is
\* halved so that the depth of the evaluation stays logarithmic.
RECURSIVE Scan(_, _, _, _, _)
Scan(alts, repl, text, a, b) ==
    IF a >= b THEN [out |-> <<>>, land |-> a]
    ELSE IF b = a + 1
    THEN Only({IF m.ok /\ m.end > a
               THEN [out |-> Expand(repl, m.c), land |-> m.end]
               ELSE [out |-> <<text[a]>>, land |-> a + 1] :
               m \in {MatchAlt(alts, text, a)}})
    ELSE Only({Only({[out |-> l.out \o r.out, land |-> r.land] :
                     r \in {Scan(alts, repl, text, l.land, b)}}) :
               l \in {Scan(alts, repl, text, a, (a + b) \div 2)}})

\* One rewriting step of a pipeline: re.sub(pattern, repl, text) for a
\* pattern with these alternatives, or text.strip().
Sub(alts, repl) == [op |-> "sub", alts |-> alts, repl |-> repl]

StripStep == [op |-> "strip", alts |-> <<>>, repl |-> <<>>]

\* str.replace(key, val): every occurrence found from the left, not
\* overlapping
Replace(key, val) == Sub(<< <<Lit(key)>> >>, <<val>>)

ApplyStep(step, text) ==
    IF step.op = "strip" THEN Strip(text)
    ELSE Scan(step.alts, step.repl, text, 1, Len(text) + 1).out

\* The steps a..b of a pipeline applied one after the other, each to the
\* value the one before has produced.  The range is halved so that the
\* depth of the evaluation stays logarithmic.
RECURSIVE ApplyFrom(_, _, _, _)
ApplyFrom(steps, a, b, text) ==
    IF a > b THEN text
    ELSE IF a = b THEN ApplyStep(steps[a], text)
    ELSE Only({ApplyFrom(steps, (a + b) \div 2 + 1, b, t) :
               t \in {ApplyFrom(steps, a, (a + b) \div 2, text)}})

Apply(steps, text) ==
    Only({ApplyFrom(s, 1, Len(s), t) : s \in {steps}, t \in {text}})

----------------------------------------------------------------------------
(* Segmentation policy: should_process_text / has_true_sentence_ending *)

\* The abbreviations, in the order of the list; each stands for \b followed
\* by these characters (the period included).
abbreviations == <<
    <<"M", "r", ".">>,
    <<"M", "r", "s", ".">>,
    <<"M", "s", ".">>,
    <<"D", "r", ".">>,
    <<"P", "r", "o", "f", ".">>,
    <<"R", "e", "v", ".">>,
    <<"S", "t", ".">>,
    <<"M", "t", ".">>,
    <<"J", "r", ".">>,
    <<"S", "r", ".">>,
    <<"I", "I", ".">>,
    <<"I", "I", "I", ".">>,
    <<"P", "h", "D", ".">>,
    <<"M", "D", ".">>,
    <<"L", "L", "D", ".">>,
    <<"B", "A", ".">>,
    <<"B", "S", ".">>,
    <<"M", "A", ".">>,
    <<"M", "S", ".">>,
    <<"e", "t", "c", ".">>,
    <<"v", "s", ".">>,
    <<"e", ".", "g", ".">>,
    <<"i", ".", "e", ".">>,
    <<"I", "n", "c", ".">>,
    <<"C", "o", "r", "p", ".">>,
    <<"L", "t", "d", ".">>,
    <<"C", "o", ".">>,
    <<"L", "L", "C", ".">>,
    <<"U", ".", "S", ".">>,
    <<"U", ".", "K", ".">>,
    <<"N", ".", "Y", ".">>,
    <<"L", ".", "A", ".">>,
    <<"D", ".", "C", ".">>,
    <<"a", ".", "m", ".">>,
    <<"p", ".", "m", ".">>,
    <<"A", ".", "M", ".">>,
    <<"P", ".", "M", ".">>,
    <<"i", "n", ".">>,
    <<"f", "t", ".">>,
    <<"l", "b", ".">>,
    <<"o", "z", ".">>,
    <<"g", "a", "l", ".">>,
    <<"m", "i", "n", ".">>,
    <<"s", "e", "c", ".">>,
    <<"m", "a", "x", ".">>
>>

\* The alternatives matched with regard to case.
abbrev_pattern_case_sensitive ==
    [n \in 1..Len(abbreviations) |-> <<WordB, Lit(abbreviations[n])>>]

\* abbrev_pattern: the alternatives joined by '|', matched ignoring case
abbrev_pattern == [n \in 1..Len(abbreviations) |->
                      <<WordB, LitIgnoreCase(abbreviations[n])>>]

ABBREV == <<"A", "B", "B", "R", "E", "V">>

sentence_endings == {".", "!", "?"}

\* A test for punctuation that masks nothing.
has_any_sentence_ending(text) ==
    \E i \in 1..Len(text) : text[i] \in sentence_endings

has_true_sentence_ending(text) ==
    LET text_without_abbrevs == Apply(<<Sub(abbrev_pattern, <<ABBREV>>)>>, text)
    IN  \E i \in 1..Len(text_without_abbrevs) :
            text_without_abbrevs[i] \in sentence_endings

\* The length above which a buffer is processed whatever its punctuation.
BufferCap == 100

\* A policy without the length rule.
ShouldProcessPunctuationOnly(text_buffer) == has_true_sentence_ending(text_buffer)

\* should_process_text, on the value get_text_buffer returns
ShouldProcess(text_buffer) ==
    LET has_sentence_end == has_true_sentence_ending(text_buffer)
        buffer_too_long == Len(Strip(text_buffer)) > BufferCap
    IN  has_sentence_end \/ buffer_too_long

----------------------------------------------------------------------------
(* Notation normalizer: MathNotationProcessor and TTSEngine._clean_text *)

\* re.sub(r'\s+', ' ', text.strip())
CollapseSpaces == <<StripStep, Sub(<< <<Cls(Space, "+")>> >>, << <<" ">> >>)>>

\* (\d+)/(\d+) -> \1 over \2
Fractions ==
    Sub(<< Group(1, <<Cls(Digits, "+")>>) \o <<Lit(<<"/">>)>>
             \o Group(2, <<Cls(Digits, "+")>>) >>,
        << <<"G1">>, <<" ", "o", "v", "e", "r", " ">>, <<"G2">> >>)

\* ([a-zA-Z0-9]+)\^([a-zA-Z0-9]+) -> \1 to the power of \2
Superscripts ==
    Sub(<< Group(1, <<Cls(AlNum, "+")>>) \o <<Lit(<<"^">>)>>
             \o Group(2, <<Cls(AlNum, "+")>>) >>,
        << <<"G1">>, <<" ", "t", "o", " ", "t", "h", "e", " ", "p", "o",
                       "w", "e", "r", " ", "o", "f", " ">>, <<"G2">> >>)

\* ([a-zA-Z0-9]+)_([a-zA-Z0-9]+) -> \1 subscript \2
Subscripts ==
    Sub(<< Group(1, <<Cls(AlNum, "+")>>) \o <<Lit(<<"_">>)>>
             \o Group(2, <<Cls(AlNum, "+")>>) >>,
        << <<"G1">>, <<" ", "s", "u", "b", "s", "c", "r", "i", "p", "t", " ">>, <<"G2">> >>)

\* The six bracket replacements, in the order of the source
Brackets == <<
    Replace(<<"(">>, <<" ", "o", "p", "e", "n", " ", "p", "a", "r", "e",
                       "n", "t", "h", "e", "s", "i", "s", " ">>),
    Replace(<<")">>, <<" ", "c", "l", "o", "s", "e", " ", "p", "a", "r",
                       "e", "n", "t", "h", "e", "s", "i", "s", " ">>),
    Replace(<<"[">>, <<" ", "o", "p", "e", "n", " ", "b", "r", "a", "c",
                       "k", "e", "t", " ">>),
    Replace(<<"]">>, <<" ", "c", "l", "o", "s", "e", " ", "b", "r", "a",
                       "c", "k", "e", "t", " ">>),
    Replace(<<"{">>, <<" ", "o", "p", "e", "n", " ", "b", "r", "a", "c",
                       "e", " ">>),
    Replace(<<"}">>, <<" ", "c", "l", "o", "s", "e", " ", "b", "r", "a",
                       "c", "e", " ">>)
>>

\* ([0-9.]+)[eE]([+-]?[0-9]+) -> \1 times 10 to the power of \2
Scientific ==
    Sub(<< Group(1, <<Cls(Digits \cup {"."}, "+")>>) \o <<Cls({"e", "E"}, "1")>>
             \o Group(2, <<Cls({"+", "-"}, "?"), Cls(Digits, "+")>>) >>,
        << <<"G1">>, <<" ", "t", "i", "m", "e", "s", " ", "1", "0", " ",
                       "t", "o", " ", "t", "h", "e", " ", "p", "o", "w",
                       "e", "r", " ", "o", "f", " ">>, <<"G2">> >>)

\* \b(\d+)\s*-\s*(\d+)\b -> \1 minus \2
MinusDigits ==
    Sub(<< <<WordB>> \o Group(1, <<Cls(Digits, "+")>>)
             \o <<Cls(Space, "*"), Lit(<<"-">>), Cls(Space, "*")>>
             \o Group(2, <<Cls(Digits, "+")>>) \o <<WordB>> >>,
        << <<"G1">>, <<" ", "m", "i", "n", "u", "s", " ">>, <<"G2">> >>)

\* A hyphen rule for whole words: ([a-zA-Z]+)\s*-\s*([a-zA-Z0-9]+)
MinusWords ==
    Sub(<< Group(1, <<Cls(Alpha, "+")>>)
             \o <<Cls(Space, "*"), Lit(<<"-">>), Cls(Space, "*")>>
             \o Group(2, <<Cls(AlNum, "+")>>) >>,
        << <<"G1">>, <<" ", "m", "i", "n", "u", "s", " ">>, <<"G2">> >>)

\* \b([a-zA-Z])\s*-\s*([a-zA-Z0-9])\b -> \1 minus \2
MinusLetters ==
    Sub(<< <<WordB>> \o Group(1, <<Cls(Alpha, "1")>>)
             \o <<Cls(Space, "*"), Lit(<<"-">>), Cls(Space, "*")>>
             \o Group(2, <<Cls(AlNum, "1")>>) \o <<WordB>> >>,
        << <<"G1">>, <<" ", "m", "i", "n", "u", "s", " ">>, <<"G2">> >>)

\* \s-\s -> ' minus '
MinusSpaced ==
    Sub(<< <<Cls(Space, "1"), Lit(<<"-">>), Cls(Space, "1")>> >>,
        << <<" ", "m", "i", "n", "u", "s", " ">> >>)

\* SYMBOL_MAP without '-', in the order of the dict, restricted to the keys
\* made of ASCII characters: the texts of the model are ASCII, and no other
\* key occurs in them or in a spoken form.
symbol_map_no_hyphen == <<
    Replace(<<"+">>, <<" ", "p", "l", "u", "s", " ">>),
    Replace(<<"*">>, <<" ", "t", "i", "m", "e", "s", " ">>),
    Replace(<<"/">>, <<" ", "d", "i", "v", "i", "d", "e", "d", " ", "b",
                       "y", " ">>),
    Replace(<<"=">>, <<" ", "e", "q", "u", "a", "l", "s", " ">>),
    Replace(<<"<">>, <<" ", "l", "e", "s", "s", " ", "t", "h", "a", "n", " ">>),
    Replace(<<">">>, <<" ", "g", "r", "e", "a", "t", "e", "r", " ", "t",
                       "h", "a", "n", " ">>),
    Replace(<<"<", "<">>, <<" ", "m", "u", "c", "h", " ", "l", "e", "s",
                            "s", " ", "t", "h", "a", "n", " ">>),
    Replace(<<">", ">">>, <<" ", "m", "u", "c", "h", " ", "g", "r", "e",
                            "a", "t", "e", "r", " ", "t", "h", "a", "n", " ">>),
    Replace(<<"l", "i", "m">>, <<" ", "l", "i", "m", "i", "t", " ">>),
    Replace(<<"%">>, <<" ", "p", "e", "r", "c", "e", "n", "t", " ">>)
>>

\* MathNotationProcessor.process_mathematical_text, as its steps in order
MathSteps ==
    <<Fractions, Superscripts, Subscripts>> \o Brackets
      \o <<Scientific, MinusDigits, MinusLetters, MinusSpaced>>
      \o symbol_map_no_hyphen \o CollapseSpaces

process_mathematical_text(text) == Apply(MathSteps, text)

NotBrace == <<NotCls({"}"}, "+")>>

\* \\frac\{([^}]+)\}\{([^}]+)\} -> \1 over \2
LatexFrac ==
    Sub(<< <<Lit(<<"\\", "f", "r", "a", "c", "{">>)>> \o Group(1, NotBrace) \o <<Lit(<<
                                                                                       "}",
                                                                                       "{">>)>>
             \o Group(2, NotBrace) \o <<Lit(<<"}">>)>> >>,
        << <<"G1">>, <<" ", "o", "v", "e", "r", " ">>, <<"G2">> >>)

\* \\sqrt\{([^}]+)\} -> square root of \1
LatexSqrt ==
    Sub(<< <<Lit(<<"\\", "s", "q", "r", "t", "{">>)>> \o Group(1, NotBrace) \o <<Lit(<<
                                                                                       "}">>)>> >>,
        << <<"s", "q", "u", "a", "r", "e", " ", "r", "o", "o", "t", " ",
             "o", "f", " ">>, <<"G1">> >>)

\* \\sqrt\[([^]]+)\]\{([^}]+)\} -> \1th root of \2
LatexRoot ==
    Sub(<< <<Lit(<<"\\", "s", "q", "r", "t", "[">>)>> \o Group(1, <<NotCls({"]"}, "+")>>)
             \o <<Lit(<<"]", "{">>)>> \o Group(2, NotBrace) \o <<Lit(<<"}">>)>> >>,
        << <<"G1">>, <<"t", "h", " ", "r", "o", "o", "t", " ", "o", "f", " ">>, <<"G2">> >>)

\* ([a-zA-Z0-9]+)\^\{([^}]+)\} -> \1 to the power of \2
LatexPower ==
    Sub(<< Group(1, <<Cls(AlNum, "+")>>) \o <<Lit(<<"^", "{">>)>>
             \o Group(2, NotBrace) \o <<Lit(<<"}">>)>> >>,
        << <<"G1">>, <<" ", "t", "o", " ", "t", "h", "e", " ", "p", "o",
                       "w", "e", "r", " ", "o", "f", " ">>, <<"G2">> >>)

\* ([a-zA-Z0-9]+)_\{([^}]+)\} -> \1 subscript \2
LatexSub ==
    Sub(<< Group(1, <<Cls(AlNum, "+")>>) \o <<Lit(<<"_", "{">>)>>
             \o Group(2, NotBrace) \o <<Lit(<<"}">>)>> >>,
        << <<"G1">>, <<" ", "s", "u", "b", "s", "c", "r", "i", "p", "t", " ">>, <<"G2">> >>)

\* \\sum_\{([^}]+)\}\^\{([^}]+)\} -> sum from \1 to \2
LatexSum ==
    Sub(<< <<Lit(<<"\\", "s", "u", "m", "_", "{">>)>> \o Group(1, NotBrace) \o <<Lit(<<
                                                                                       "}",
                                                                                       "^",
                                                                                       "{">>)>>
             \o Group(2, NotBrace) \o <<Lit(<<"}">>)>> >>,
        << <<"s", "u", "m", " ", "f", "r", "o", "m", " ">>, <<"G1">>, <<
                                                                        " ",
                                                                        "t",
                                                                        "o",
                                                                        " ">>, <<"G2">> >>)

\* \\int_\{([^}]+)\}\^\{([^}]+)\} -> integral from \1 to \2
LatexInt ==
    Sub(<< <<Lit(<<"\\", "i", "n", "t", "_", "{">>)>> \o Group(1, NotBrace) \o <<Lit(<<
                                                                                       "}",
                                                                                       "^",
                                                                                       "{">>)>>
             \o Group(2, NotBrace) \o <<Lit(<<"}">>)>> >>,
        << <<"i", "n", "t", "e", "g", "r", "a", "l", " ", "f", "r", "o",
             "m", " ">>, <<"G1">>, <<
                                                                                                              " ",
                                                                                                              "t",
                                                                                                              "o",
                                                                                                              " ">>, <<"G2">> >>)

\* \\lim_\{([^}]+)\\to\s*([^}]+)\} -> limit as \1 approaches \2
LatexLim ==
    Sub(<< <<Lit(<<"\\", "l", "i", "m", "_", "{">>)>> \o Group(1, NotBrace) \o <<Lit(<<
                                                                                       "\\",
                                                                                       "t",
                                                                                       "o">>)>>
             \o <<Cls(Space, "*")>> \o Group(2, NotBrace) \o <<Lit(<<"}">>)>> >>,
        << <<"l", "i", "m", "i", "t", " ", "a", "s", " ">>, <<"G1">>, <<
                                                                        " ",
                                                                        "a",
                                                                        "p",
                                                                        "p",
                                                                        "r",
                                                                        "o",
                                                                        "a",
                                                                        "c",
                                                                        "h",
                                                                        "e",
                                                                        "s",
                                                                        " ">>, <<"G2">> >>)

\* \\[a-zA-Z]+ -> ''
LatexCommands == Sub(<< <<Lit(<<"\\">>), Cls(Alpha, "+")>> >>, <<>>)

\* MathNotationProcessor.process_latex_expressions, as its steps in order
LatexSteps ==
    <<LatexFrac, LatexSqrt, LatexRoot, LatexPower, LatexSub, LatexSum,
      LatexInt, LatexLim, LatexCommands>> \o CollapseSpaces

process_latex_expressions(text) == Apply(LatexSteps, text)

\* TTSEngine._clean_text: both processors, then the whitespace clean-up
CleanText(text) == Apply(MathSteps \o LatexSteps \o CollapseSpaces, text)

----------------------------------------------------------------------------
(* Inbound frames *)

\* A JSON payload: valid = json.loads succeeds, obj = the value is a dict,
\* has_text = "text" in message, flush / reset = message.get(...) is truthy.
Payload(valid, obj, has_text, text, flush, reset) ==
    [valid |-> valid, obj |-> obj, has_text |-> has_text, text |-> text,
     flush |-> flush, reset |-> reset]

TextMsg(t) == Payload(TRUE, TRUE, TRUE, t, FALSE, FALSE)

FlushMsg == Payload(TRUE, TRUE, FALSE, <<>>, TRUE, FALSE)

ResetMsg == Payload(TRUE, TRUE, FALSE, <<>>, FALSE, TRUE)

\* {} or {"flush": false}: an object of no recognized shape
UnknownMsg == Payload(TRUE, TRUE, FALSE, <<>>, FALSE, FALSE)

\* valid JSON that is not an object, such as [1]
NonObjectMsg == Payload(TRUE, FALSE, FALSE, <<>>, FALSE, FALSE)

\* a payload json.loads rejects
MalformedMsg == Payload(FALSE, FALSE, FALSE, <<>>, FALSE, FALSE)

InitMarker == <<" ">>

\* The texts the clients of the model send
Texts == {
    InitMarker,
    <<>>,
    <<"H", "i", ".">>,
    <<"D", "r", ".">>,
    <<" ", " ">>,
    <<"\\", "x">>
}

Payloads ==
    {TextMsg(t) : t \in Texts}
      \cup {FlushMsg, ResetMsg, UnknownMsg, NonObjectMsg, MalformedMsg}

\* The second client sends less: what it does matters only next to the
\* first.
PayloadsOf(s) ==
    IF s = "s1" THEN Payloads ELSE {TextMsg(<<"H", "i", ".">>), FlushMsg}

----------------------------------------------------------------------------
(* ConnectionManager *)

NewSessionRecord == [text_buffer |-> <<>>, full_text |-> <<>>, is_active |-> TRUE]

\* ConnectionManager.connect, on session_data
connect(sd, id) ==
    [x \in DOMAIN sd \cup {id} |-> IF x = id THEN NewSessionRecord ELSE sd[x]]

\* A disconnect that leaves the record in session_data.
keep_session_record(sd, id) == sd

\* ConnectionManager.disconnect, on session_data
disconnect(sd, id) == [x \in DOMAIN sd \ {id} |-> sd[x]]

\* An initialize that empties the buffer and keeps the transcript.
initialize_session_buffer_only(sd, id) ==
    IF id \in DOMAIN sd
    THEN [sd EXCEPT ![id] = [@ EXCEPT !.text_buffer = <<>>, !.is_active = TRUE]]
    ELSE sd

initialize_session(sd, id) ==
    IF id \in DOMAIN sd
    THEN [sd EXCEPT ![id] = [text_buffer |-> <<>>, full_text |-> <<>>,
                             is_active |-> TRUE]]
    ELSE sd

\* An append that forgets the transcript.
add_text_chunk_to_buffer_only(sd, id, text) ==
    IF id \in DOMAIN sd
    THEN [sd EXCEPT ![id] = [@ EXCEPT !.text_buffer = @ \o text]]
    ELSE sd

\* An append that makes the record when there is none.
add_text_chunk_creating_record(sd, id, text) ==
    [x \in DOMAIN sd \cup {id} |->
        IF x /= id THEN sd[x]
        ELSE IF id \in DOMAIN sd
        THEN [sd[id] EXCEPT !.text_buffer = @ \o text, !.full_text = @ \o text]
        ELSE [text_buffer |-> text, full_text |-> text, is_active |-> TRUE]]

add_text_chunk(sd, id, text) ==
    IF id \in DOMAIN sd
    THEN [sd EXCEPT ![id] = [@ EXCEPT !.text_buffer = @ \o text,
                                      !.full_text = @ \o text]]
    ELSE sd

get_text_buffer(sd, id) == IF id \in DOMAIN sd THEN sd[id].text_buffer ELSE <<>>

\* No clear at all: the buffer keeps what has been spoken.
keep_text_buffer(sd, id) == sd

\* A clear that takes the transcript with it: the fault the transcript
\* invariant is there to exclude.
clear_text_buffer_and_transcript(sd, id) ==
    IF id \in DOMAIN sd
    THEN [sd EXCEPT ![id].text_buffer = <<>>, ![id].full_text = <<>>]
    ELSE sd

\* A clear on one buffer shared by all sessions.
clear_every_text_buffer(sd, id) ==
    [x \in DOMAIN sd |-> [sd[x] EXCEPT !.text_buffer = <<>>]]

clear_text_buffer(sd, id) ==
    IF id \in DOMAIN sd THEN [sd EXCEPT ![id].text_buffer = <<>>] ELSE sd

\* cleanup_all_connections: disconnect for every key of active_connections
cleanup_all_connections(sd, conns) == [x \in DOMAIN sd \ conns |-> sd[x]]

\* should_process_text(session_id)
should_process_text(sd, id) == ShouldProcess(get_text_buffer(sd, id))

----------------------------------------------------------------------------
(* Outbound messages *)

ResultMessage(by, original, processed, full) ==
    [type |-> "result", by |-> by, error |-> "", original_text |-> original,
     processed_text |-> processed, full_text |-> full,
     current_chunk_text |-> processed]

ErrorMessage(by, error) ==
    [type |-> "error", by |-> by, error |-> error, original_text |-> <<>>,
     processed_text |-> <<>>, full_text |-> <<>>, current_chunk_text |-> <<>>]

NoMessage == ErrorMessage(0, "")

\* The locals of a handler that is not inside process_text_buffer
Idle == [why |-> "none", by |-> 0, text_buffer |-> <<>>, result |-> NoMessage]

----------------------------------------------------------------------------
(* The state after startup: lifespan has created the engine and the       *)
(* registry, no connection has been accepted.                             *)

Init ==
    /\ active_connections = {}
    /\ session_data = <<>>
    /\ ready = TRUE
    /\ pc = [s \in Sessions |-> "new"]
    /\ cur = [s \in Sessions |-> Idle]
    /\ inbox = [s \in Sessions |-> <<>>]
    /\ transport = [s \in Sessions |-> "open"]
    /\ running = NoSession
    /\ out = [s \in Sessions |-> <<>>]
    /\ handled = [s \in Sessions |-> <<>>]
    /\ passes = [s \in Sessions |-> <<>>]
    /\ calls = <<>>

----------------------------------------------------------------------------
(* Environment: the clients and the transport *)

TextFrame(n, payload) == [kind |-> "text", seq |-> n, payload |-> payload]

\* The websocket.disconnect event
DisconnectFrame == [kind |-> "disconnect", seq |-> 0, payload |-> UnknownMsg]

\* Text frames session s has been sent so far
Arrivals(s) ==
    Len(handled[s]) + Cardinality({i \in DOMAIN inbox[s] : inbox[s][i].kind = "text"})

RECURSIVE SumArrivals(_)
SumArrivals(S) ==
    IF S = {} THEN 0
    ELSE LET s == CHOOSE x \in S : TRUE IN Arrivals(s) + SumArrivals(S \ {s})

\* The client of s sends a text frame with this payload.
ClientSend(s, payload) ==
    /\ pc[s] \notin {"new", "closed"}
    /\ transport[s] = "open"
    /\ SumArrivals(Sessions) < MaxArrivals
    /\ inbox' = [inbox EXCEPT ![s] = Append(@, TextFrame(Arrivals(s) + 1, payload))]
    /\ UNCHANGED <<calls, active_connections, session_data, ready, pc, cur, transport,
                   running, out, handled, passes>>

\* The client of s goes away: sends to it fail from now on, and receive_text
\* raises WebSocketDisconnect once the frames before it have been read.
ClientDisconnect(s) ==
    /\ pc[s] \notin {"new", "closed"}
    /\ transport[s] = "open"
    /\ transport' = [transport EXCEPT ![s] = "closed"]
    /\ inbox' = [inbox EXCEPT ![s] = Append(@, DisconnectFrame)]
    /\ UNCHANGED <<calls, active_connections, session_data, ready, pc, cur, running,
                   out, handled, passes>>

----------------------------------------------------------------------------
(* websocket_endpoint: one coroutine per session *)

\* accept, then connection_manager.connect; the loop then waits in
\* receive_text.
Connect(s) ==
    /\ pc[s] = "new"
    /\ ready
    /\ running = NoSession
    /\ active_connections' = active_connections \cup {s}
    /\ session_data' = connect(session_data, s)
    /\ pc' = [pc EXCEPT ![s] = "recv"]
    /\ UNCHANGED <<calls, ready, cur, inbox, transport, running, out, handled, passes>>

\* A handler that takes its next frame while its result is still being
\* sent.
CanReceiveWhileSending(s) ==
    /\ pc[s] \in {"recv", "send_result"}
    /\ running = NoSession
    /\ inbox[s] /= <<>>

\* The coroutine of s is resumed from receive_text with the next frame: it
\* is suspended there, the loop is free, and a frame has arrived.
CanReceive(s) ==
    /\ pc[s] = "recv"
    /\ running = NoSession
    /\ inbox[s] /= <<>>

\* receive_text returns the frames in the order of their arrival.
NextFrame(s) == Head(inbox[s])

\* The frame is taken from the queue; a text frame is the next message the
\* handler works on.
Take(s) ==
    /\ inbox' = [inbox EXCEPT ![s] = Tail(@)]
    /\ handled' = [handled EXCEPT ![s] =
                      IF NextFrame(s).kind = "text" THEN Append(@, NextFrame(s))
                      ELSE @]

\* The number of the message the handler of s takes now
ThisMessage(s) == Len(handled[s]) + 1

\* The loop is left: the finally clause runs connection_manager.disconnect
\* on the registry sd, and the coroutine ends.
Leave(s, sd) ==
    /\ session_data' = disconnect(sd, s)
    /\ active_connections' = active_connections \ {s}
    /\ pc' = [pc EXCEPT ![s] = "closed"]

\* The loop goes back to receive_text with the registry sd.
Continue(s, sd) ==
    /\ session_data' = sd
    /\ active_connections' = active_connections
    /\ pc' = [pc EXCEPT ![s] = "recv"]

\* A pass that is started whatever the buffer holds.
process_text_buffer_unchecked(s, sd, why) ==
    /\ session_data' = sd
    /\ active_connections' = active_connections
    /\ pc' = [pc EXCEPT ![s] = "synth"]
    /\ running' = s
    /\ cur' = [cur EXCEPT ![s] = [why |-> why, by |-> ThisMessage(s),
                                   text_buffer |-> get_text_buffer(sd, s),
                                   result |-> NoMessage]]
    /\ passes' = [passes EXCEPT ![s] =
                     Append(@, [by |-> ThisMessage(s),
                                text |-> get_text_buffer(sd, s),
                                outcome |-> "pending"])]

\* process_text_buffer up to the backend call, on the registry sd: a blank
\* buffer returns at once, any other is handed to
\* generate_audio_with_alignment, which holds the event loop until it
\* returns.
process_text_buffer(s, sd, why) ==
    LET text_buffer == get_text_buffer(sd, s) IN
    IF IsBlank(text_buffer)
    THEN /\ Continue(s, sd)
         /\ UNCHANGED <<cur, running, passes>>
    ELSE /\ session_data' = sd
         /\ active_connections' = active_connections
         /\ pc' = [pc EXCEPT ![s] = "synth"]
         /\ running' = s
         /\ cur' = [cur EXCEPT ![s] = [why |-> why, by |-> ThisMessage(s),
                                        text_buffer |-> text_buffer,
                                        result |-> NoMessage]]
         /\ passes' = [passes EXCEPT ![s] =
                          Append(@, [by |-> ThisMessage(s), text |-> text_buffer,
                                     outcome |-> "pending"])]

\* receive_text raises WebSocketDisconnect.
RecvDisconnect(s) ==
    /\ CanReceive(s)
    /\ NextFrame(s).kind = "disconnect"
    /\ Take(s)
    /\ Leave(s, session_data)
    /\ UNCHANGED <<calls, ready, cur, transport, running, out, passes>>

\* json.loads raises JSONDecodeError: the handler sends the error message.
RecvMalformed(s) ==
    /\ CanReceive(s)
    /\ NextFrame(s).kind = "text"
    /\ ~NextFrame(s).payload.valid
    /\ Take(s)
    /\ pc' = [pc EXCEPT ![s] = "send_json_error"]
    /\ cur' = [cur EXCEPT ![s] = [Idle EXCEPT !.by = ThisMessage(s)]]
    /\ UNCHANGED <<calls, active_connections, session_data, ready, transport, running,
                   out, passes>>

\* The value is no dict: `"text" in message`, message["text"] or
\* message.get raises, and the handler sends "Processing error".
RecvNonObject(s) ==
    /\ CanReceive(s)
    /\ NextFrame(s).kind = "text"
    /\ NextFrame(s).payload.valid
    /\ ~NextFrame(s).payload.obj
    /\ Take(s)
    /\ pc' = [pc EXCEPT ![s] = "send_processing_error"]
    /\ cur' = [cur EXCEPT ![s] = [Idle EXCEPT !.by = ThisMessage(s)]]
    /\ UNCHANGED <<calls, active_connections, session_data, ready, transport, running,
                   out, passes>>

IsObject(s) ==
    /\ CanReceive(s)
    /\ NextFrame(s).kind = "text"
    /\ NextFrame(s).payload.valid
    /\ NextFrame(s).payload.obj

\* {"text": " "}
RecvInit(s) ==
    /\ IsObject(s)
    /\ NextFrame(s).payload.has_text
    /\ NextFrame(s).payload.text = InitMarker
    /\ Take(s)
    /\ Continue(s, initialize_session(session_data, s))
    /\ UNCHANGED <<calls, ready, cur, transport, running, out, passes>>

\* {"text": ""}: process_remaining_text, then break
RecvClose(s) ==
    /\ IsObject(s)
    /\ NextFrame(s).payload.has_text
    /\ NextFrame(s).payload.text = <<>>
    /\ Take(s)
    /\ IF ~IsBlank(get_text_buffer(session_data, s))
       THEN process_text_buffer(s, session_data, "close")
       ELSE /\ Leave(s, session_data)
            /\ UNCHANGED <<cur, running, passes>>
    /\ UNCHANGED <<calls, ready, transport, out>>

\* {"text": "<content>"}
RecvText(s) ==
    /\ IsObject(s)
    /\ NextFrame(s).payload.has_text
    /\ NextFrame(s).payload.text \notin {InitMarker, <<>>}
    /\ Take(s)
    /\ LET sd == add_text_chunk(session_data, s, NextFrame(s).payload.text)
       IN  IF should_process_text(sd, s)
           THEN process_text_buffer(s, sd, "append")
           ELSE /\ Continue(s, sd)
                /\ UNCHANGED <<cur, running, passes>>
    /\ UNCHANGED <<calls, ready, transport, out>>

\* A flush that asks the policy first.
RecvFlushIfPolicy(s) ==
    /\ IsObject(s)
    /\ ~NextFrame(s).payload.has_text
    /\ NextFrame(s).payload.flush
    /\ Take(s)
    /\ IF should_process_text(session_data, s)
       THEN process_text_buffer(s, session_data, "flush")
       ELSE /\ Continue(s, session_data)
            /\ UNCHANGED <<cur, running, passes>>
    /\ UNCHANGED <<calls, ready, transport, out>>

\* {"flush": true}
RecvFlush(s) ==
    /\ IsObject(s)
    /\ ~NextFrame(s).payload.has_text
    /\ NextFrame(s).payload.flush
    /\ Take(s)
    /\ process_text_buffer(s, session_data, "flush")
    /\ UNCHANGED <<calls, ready, transport, out>>

\* {"reset": true}
RecvReset(s) ==
    /\ IsObject(s)
    /\ ~NextFrame(s).payload.has_text
    /\ ~NextFrame(s).payload.flush
    /\ NextFrame(s).payload.reset
    /\ Take(s)
    /\ Continue(s, initialize_session(session_data, s))
    /\ UNCHANGED <<calls, ready, cur, transport, running, out, passes>>

\* any other object: a warning is logged
RecvUnknown(s) ==
    /\ IsObject(s)
    /\ ~NextFrame(s).payload.has_text
    /\ ~NextFrame(s).payload.flush
    /\ ~NextFrame(s).payload.reset
    /\ Take(s)
    /\ Continue(s, session_data)
    /\ UNCHANGED <<calls, ready, cur, transport, running, out, passes>>

\* The pass of s that is under way gets its outcome.
PassOutcome(s, outcome) ==
    passes' = [passes EXCEPT ![s][Len(passes[s])].outcome = outcome]

\* A handler that sends the result as the engine returns it, full_text
\* being the processed text of the chunk.
BackendReturnsEngineResult(s) ==
    /\ pc[s] = "synth"
    /\ running = s
    /\ ready
    /\ LET text_buffer == cur[s].text_buffer
       IN  \E processed_text \in {CleanText(text_buffer)} :
               /\ ~IsBlank(processed_text)
               /\ cur' = [cur EXCEPT ![s].result =
                             ResultMessage(cur[s].by, text_buffer, processed_text,
                                           processed_text)]
    /\ pc' = [pc EXCEPT ![s] = "send_result"]
    /\ running' = NoSession
    /\ PassOutcome(s, "result")
    /\ UNCHANGED <<calls, active_connections, session_data, ready, inbox, transport,
                   out, handled>>

\* generate_audio_with_alignment returns a result: the engine is ready, the
\* normalized text is not blank and nothing raises.  process_text_buffer
\* adds full_text and current_chunk_text and starts to send.
BackendReturnsResult(s) ==
    /\ pc[s] = "synth"
    /\ running = s
    /\ ready
    /\ LET text_buffer == cur[s].text_buffer
           full_accumulated_text ==
               IF s \in DOMAIN session_data THEN session_data[s].full_text
               ELSE text_buffer
       IN  \E processed_text \in {CleanText(text_buffer)} :
               /\ ~IsBlank(processed_text)
               /\ cur' = [cur EXCEPT ![s].result =
                             ResultMessage(cur[s].by, text_buffer, processed_text,
                                           full_accumulated_text)]
    /\ pc' = [pc EXCEPT ![s] = "send_result"]
    /\ running' = NoSession
    /\ PassOutcome(s, "result")
    /\ UNCHANGED <<calls, active_connections, session_data, ready, inbox, transport,
                   out, handled>>

\* A handler that goes back to its loop after any failed pass, the final
\* one included.
BackendReturnsNoneAndContinues(s) ==
    /\ pc[s] = "synth"
    /\ running = s
    /\ Continue(s, session_data)
    /\ cur' = [cur EXCEPT ![s] = Idle]
    /\ running' = NoSession
    /\ PassOutcome(s, "none")
    /\ UNCHANGED <<calls, ready, inbox, transport, out, handled>>

\* A handler that drops the buffer when the backend has failed.
BackendReturnsNoneAndClears(s) ==
    /\ pc[s] = "synth"
    /\ running = s
    /\ IF cur[s].why = "close"
       THEN Leave(s, session_data)
       ELSE Continue(s, clear_text_buffer(session_data, s))
    /\ cur' = [cur EXCEPT ![s] = Idle]
    /\ running' = NoSession
    /\ PassOutcome(s, "none")
    /\ UNCHANGED <<calls, ready, inbox, transport, out, handled>>

\* generate_audio_with_alignment returns None: the engine is not ready, the
\* normalized text is blank, or something in it raises.  process_text_buffer
\* skips `if result:` and returns.
BackendReturnsNone(s) ==
    /\ pc[s] = "synth"
    /\ running = s
    /\ IF cur[s].why = "close"
       THEN Leave(s, session_data)
       ELSE Continue(s, session_data)
    /\ cur' = [cur EXCEPT ![s] = Idle]
    /\ running' = NoSession
    /\ PassOutcome(s, "none")
    /\ UNCHANGED <<calls, ready, inbox, transport, out, handled>>

\* A send that reaches a client that has gone.
SendResultToAnyTransport(s) ==
    /\ pc[s] = "send_result"
    /\ running = NoSession
    /\ out' = [out EXCEPT ![s] = Append(@, cur[s].result)]
    /\ IF cur[s].why = "close"
       THEN Leave(s, clear_text_buffer(session_data, s))
       ELSE Continue(s, clear_text_buffer(session_data, s))
    /\ cur' = [cur EXCEPT ![s] = Idle]
    /\ UNCHANGED <<calls, ready, inbox, transport, running, handled, passes>>

\* send_text of the result completes; the buffer is cleared.
SendResult(s) ==
    /\ pc[s] = "send_result"
    /\ running = NoSession
    /\ transport[s] = "open"
    /\ out' = [out EXCEPT ![s] = Append(@, cur[s].result)]
    /\ IF cur[s].why = "close"
       THEN Leave(s, clear_text_buffer(session_data, s))
       ELSE Continue(s, clear_text_buffer(session_data, s))
    /\ cur' = [cur EXCEPT ![s] = Idle]
    /\ UNCHANGED <<calls, ready, inbox, transport, running, handled, passes>>

\* What a send on a closed transport raises depends on the versions of the
\* server libraries.
SendErrors == {"WebSocketDisconnect", "Exception"}

\* A failed send that clears the buffer all the same.
SendResultFailsAndClears(s, raised) ==
    /\ pc[s] = "send_result"
    /\ running = NoSession
    /\ transport[s] = "closed"
    /\ IF cur[s].why = "close" \/ raised = "WebSocketDisconnect"
       THEN Leave(s, session_data)
       ELSE Continue(s, clear_text_buffer(session_data, s))
    /\ cur' = [cur EXCEPT ![s] = Idle]
    /\ UNCHANGED <<calls, ready, inbox, transport, running, out, handled, passes>>

\* send_text of the result raises: the except clause of process_text_buffer
\* tries to send "TTS processing failed", which raises as well.  In the
\* final pass process_remaining_text logs it and the loop is left; otherwise
\* WebSocketDisconnect leaves the loop, and any other exception is answered
\* with "Processing error", whose failure is logged.
SendResultFails(s, raised) ==
    /\ pc[s] = "send_result"
    /\ running = NoSession
    /\ transport[s] = "closed"
    /\ IF cur[s].why = "close" \/ raised = "WebSocketDisconnect"
       THEN Leave(s, session_data)
       ELSE Continue(s, session_data)
    /\ cur' = [cur EXCEPT ![s] = Idle]
    /\ UNCHANGED <<calls, ready, inbox, transport, running, out, handled, passes>>

\* A handler that closes the channel after the error message.
SendJsonErrorAndLeave(s) ==
    /\ pc[s] = "send_json_error"
    /\ running = NoSession
    /\ out' = [out EXCEPT ![s] =
                  IF transport[s] = "open"
                  THEN Append(@, ErrorMessage(cur[s].by, "Invalid JSON format"))
                  ELSE @]
    /\ Leave(s, session_data)
    /\ cur' = [cur EXCEPT ![s] = Idle]
    /\ UNCHANGED <<calls, ready, inbox, transport, running, handled, passes>>

\* A handler that stays in its loop when the error message cannot be sent.
SendJsonErrorAndStay(s) ==
    /\ pc[s] = "send_json_error"
    /\ running = NoSession
    /\ out' = [out EXCEPT ![s] =
                  IF transport[s] = "open"
                  THEN Append(@, ErrorMessage(cur[s].by, "Invalid JSON format"))
                  ELSE @]
    /\ Continue(s, session_data)
    /\ cur' = [cur EXCEPT ![s] = Idle]
    /\ UNCHANGED <<calls, ready, inbox, transport, running, handled, passes>>

\* {"error": "Invalid JSON format"} is sent, or the send raises and the loop
\* is left.
SendJsonError(s) ==
    /\ pc[s] = "send_json_error"
    /\ running = NoSession
    /\ IF transport[s] = "open"
       THEN /\ out' = [out EXCEPT ![s] =
                          Append(@, ErrorMessage(cur[s].by, "Invalid JSON format"))]
            /\ Continue(s, session_data)
       ELSE /\ out' = out
            /\ Leave(s, session_data)
    /\ cur' = [cur EXCEPT ![s] = Idle]
    /\ UNCHANGED <<calls, ready, inbox, transport, running, handled, passes>>

\* {"error": "Processing error"} is sent, or the send raises and that is
\* logged; the loop goes on.
SendProcessingError(s) ==
    /\ pc[s] = "send_processing_error"
    /\ running = NoSession
    /\ out' = [out EXCEPT ![s] =
                  IF transport[s] = "open"
                  THEN Append(@, ErrorMessage(cur[s].by, "Processing error"))
                  ELSE @]
    /\ Continue(s, session_data)
    /\ cur' = [cur EXCEPT ![s] = Idle]
    /\ UNCHANGED <<calls, ready, inbox, transport, running, handled, passes>>

\* lifespan after the yield: cleanup_all_connections, then
\* tts_engine.cleanup; neither suspends.
Shutdown ==
    /\ ready
    /\ running = NoSession
    /\ session_data' = cleanup_all_connections(session_data, active_connections)
    /\ active_connections' = {}
    /\ ready' = FALSE
    /\ UNCHANGED <<calls, pc, cur, inbox, transport, running, out, handled, passes>>

Next ==
    \/ \E s \in Sessions :
          \/ Connect(s)
          \/ ClientDisconnect(s)
          \/ RecvDisconnect(s)
          \/ RecvMalformed(s)
          \/ RecvNonObject(s)
          \/ RecvInit(s)
          \/ RecvClose(s)
          \/ RecvText(s)
          \/ RecvFlush(s)
          \/ RecvReset(s)
          \/ RecvUnknown(s)
          \/ BackendReturnsResult(s)
          \/ BackendReturnsNone(s)
          \/ SendResult(s)
          \/ SendJsonError(s)
          \/ SendProcessingError(s)
          \/ \E payload \in PayloadsOf(s) : ClientSend(s, payload)
          \/ \E raised \in SendErrors : SendResultFails(s, raised)
    \/ Shutdown

Spec == Init /\ [][Next]_vars

----------------------------------------------------------------------------
(* The registry used directly: the operations of ConnectionManager called *)
(* one after another on any id, as a caller other than the endpoint may   *)
(* do.  calls is the log of the calls made.                               *)

MaxCalls == 3

\* The texts appended
RegistryTexts == {<<"H", "i", ".">>, <<"D", "r", ".">>, <<" ", " ">>}

Call(op, id, text, ret) == [op |-> op, id |-> id, text |-> text, ret |-> ret]

\* One call: the maps after it and its entry in the log
RegistryCall(sd, conns, call) ==
    /\ Len(calls) < MaxCalls
    /\ session_data' = sd
    /\ active_connections' = conns
    /\ calls' = Append(calls, call)
    /\ UNCHANGED <<ready, pc, cur, inbox, transport, running, out, handled, passes>>

\* await connection_manager.connect(websocket, id)
OpConnect(id) ==
    RegistryCall(connect(session_data, id), active_connections \cup {id},
                 Call("connect", id, <<>>, <<>>))

\* await connection_manager.disconnect(id)
OpDisconnect(id) ==
    RegistryCall(disconnect(session_data, id), active_connections \ {id},
                 Call("disconnect", id, <<>>, <<>>))

\* await connection_manager.initialize_session(id)
OpInitialize(id) ==
    RegistryCall(initialize_session(session_data, id), active_connections,
                 Call("initialize_session", id, <<>>, <<>>))

\* await connection_manager.add_text_chunk(id, text)
OpAppend(id, text) ==
    RegistryCall(add_text_chunk(session_data, id, text), active_connections,
                 Call("add_text_chunk", id, text, <<>>))

\* connection_manager.get_text_buffer(id)
OpRead(id) ==
    RegistryCall(session_data, active_connections,
                 Call("get_text_buffer", id, <<>>, get_text_buffer(session_data, id)))

\* connection_manager.clear_text_buffer(id)
OpClear(id) ==
    RegistryCall(clear_text_buffer(session_data, id), active_connections,
                 Call("clear_text_buffer", id, <<>>, <<>>))

RegistryNext ==
    \E id \in Sessions :
        \/ OpConnect(id)
        \/ OpDisconnect(id)
        \/ OpInitialize(id)
        \/ OpRead(id)
        \/ OpClear(id)
        \/ \E text \in RegistryTexts : OpAppend(id, text)

RegistrySpec == Init /\ [][RegistryNext]_vars

----------------------------------------------------------------------------
(* One session fed with texts near the cap of the policy: two of them     *)
(* make a buffer of 100 or of more than 100 characters.                   *)

CapSessions == {"s1"}

\* 50 letters; a blank and 50 letters; 51 letters
CapTexts == {
    [i \in 1..50 |-> "a"],
    <<" ">> \o [i \in 1..50 |-> "a"],
    [i \in 1..51 |-> "a"]
}

CapPayloads == {TextMsg(t) : t \in CapTexts} \cup {FlushMsg, ResetMsg}

CapNext ==
    \E s \in CapSessions :
        \/ Connect(s)
        \/ ClientDisconnect(s)
        \/ RecvDisconnect(s)
        \/ RecvText(s)
        \/ RecvFlush(s)
        \/ RecvReset(s)
        \/ BackendReturnsResult(s)
        \/ BackendReturnsNone(s)
        \/ SendResult(s)
        \/ \E payload \in CapPayloads : ClientSend(s, payload)
        \/ \E raised \in SendErrors : SendResultFails(s, raised)

CapSpec == Init /\ [][CapNext]_vars

----------------------------------------------------------------------------
(* The policy as a function: should_process_text called once on a        *)
(* session whose buffer is any text made of a few tokens, or one of some  *)
(* texts about as long as the cap.                                        *)

MaxTokens == 3

\* Abbreviations, parts of abbreviations, letters, a blank and the marks
PolicyTokens == {
    <<"D", "r", ".">>,
    <<"d", "r", ".">>,
    <<"i", ".", "e", ".">>,
    <<"g", ".">>,
    <<"I", "I", ".">>,
    <<"I">>,
    <<"a">>,
    <<" ">>,
    <<".">>,
    <<"!">>,
    <<"?">>
}

RECURSIVE TokenTexts(_)
TokenTexts(n) ==
    IF n = 0 THEN {<<>>}
    ELSE LET shorter == TokenTexts(n - 1)
         IN  shorter \cup {b \o t : b \in shorter, t \in PolicyTokens}

\* 100 and 101 letters; 100 letters between blanks; "Dr. " before 96 and 97
\* letters; 99 letters and a period
LongTexts == {
    [i \in 1..100 |-> "a"],
    [i \in 1..101 |-> "a"],
    <<" ">> \o [i \in 1..100 |-> "a"] \o <<" ">>,
    <<"D", "r", ".", " ">> \o [i \in 1..96 |-> "a"],
    <<"D", "r", ".", " ">> \o [i \in 1..97 |-> "a"],
    [i \in 1..99 |-> "a"] \o <<".">>
}

PolicyBuffers == TokenTexts(MaxTokens) \cup LongTexts

PolicyInit ==
    /\ active_connections = {"s1"}
    /\ session_data \in {[id \in {"s1"} |->
                            [text_buffer |-> b, full_text |-> b, is_active |-> TRUE]]
                         : b \in PolicyBuffers}
    /\ ready = TRUE
    /\ pc = [s \in Sessions |-> IF s = "s1" THEN "recv" ELSE "new"]
    /\ cur = [s \in Sessions |-> Idle]
    /\ inbox = [s \in Sessions |-> <<>>]
    /\ transport = [s \in Sessions |-> "open"]
    /\ running = NoSession
    /\ out = [s \in Sessions |-> <<>>]
    /\ handled = [s \in Sessions |-> <<>>]
    /\ passes = [s \in Sessions |-> <<>>]
    /\ calls = <<>>

\* should_process_text(id)
OpShouldProcess(id) ==
    /\ calls = <<>>
    /\ calls' = <<Call("should_process_text", id, get_text_buffer(session_data, id),
                       should_process_text(session_data, id))>>
    /\ UNCHANGED <<active_connections, session_data, ready, pc, cur, inbox,
                   transport, running, out, handled, passes>>

PolicyNext == \E id \in DOMAIN session_data : OpShouldProcess(id)

PolicySpec == PolicyInit /\ [][PolicyNext]_vars

----------------------------------------------------------------------------
(* One session fed with the texts of the documented examples.             *)

\* "Hello Dr. Smith." and "5 - 3 = 2"
ExampleTexts == {
    InitMarker,
    <<"H", "e", "l", "l", "o", " ", "D", "r", ".", " ", "S", "m", "i", "t", "h", ".">>,
    <<"5", " ", "-", " ", "3", " ", "=", " ", "2">>
}

ExamplePayloads == {TextMsg(t) : t \in ExampleTexts} \cup {FlushMsg}

ExamplesNext ==
    \E s \in CapSessions :
        \/ Connect(s)
        \/ ClientDisconnect(s)
        \/ RecvDisconnect(s)
        \/ RecvInit(s)
        \/ RecvText(s)
        \/ RecvFlush(s)
        \/ BackendReturnsResult(s)
        \/ BackendReturnsNone(s)
        \/ SendResult(s)
        \/ \E payload \in ExamplePayloads : ClientSend(s, payload)
        \/ \E raised \in SendErrors : SendResultFails(s, raised)

ExamplesSpec == Init /\ [][ExamplesNext]_vars

----------------------------------------------------------------------------
(* The functions of the engine, each called once on inputs drawn from     *)
(* small sets: _clean_text on a text made of a few tokens, on a LaTeX     *)
(* command or on a documented example; the alignments on a short text and *)
(* a few timing records; the encoder on one sample.                       *)

\* The character U+0007, a control character that is no whitespace
BEL == "BEL"

NormalizerTokens == {
    <<"5">>,
    <<"a">>,
    <<"a", "b">>,
    <<"-">>,
    <<" ">>,
    <<"\t">>,
    <<"(">>,
    <<BEL>>
}

RECURSIVE NormalizerTokenTexts(_)
NormalizerTokenTexts(n) ==
    IF n = 0 THEN {<<>>}
    ELSE LET shorter == NormalizerTokenTexts(n - 1)
         IN  shorter \cup {b \o t : b \in shorter, t \in NormalizerTokens}

\* The arguments of the LaTeX commands: free of braces
LatexArgs == {<<"1">>, <<"2">>, <<"x">>}

LatexForms == {"frac", "sqrt", "power", "subscript", "sum", "int"}

\* \frac{a}{b}, \sqrt{a}, a^{b}, a_{b}, \sum_{a}^{b}, \int_{a}^{b}
LatexText(form, a, b) ==
    CASE form = "frac" ->
            <<"\\", "f", "r", "a", "c", "{">> \o a \o <<"}", "{">> \o b \o <<"}">>
      [] form = "sqrt" -> <<"\\", "s", "q", "r", "t", "{">> \o a \o <<"}">>
      [] form = "power" -> a \o <<"^", "{">> \o b \o <<"}">>
      [] form = "subscript" -> a \o <<"_", "{">> \o b \o <<"}">>
      [] form = "sum" ->
            <<"\\", "s", "u", "m", "_", "{">> \o a \o <<"}", "^", "{">> \o b \o <<"}">>
      [] form = "int" ->
            <<"\\", "i", "n", "t", "_", "{">> \o a \o <<"}", "^", "{">> \o b \o <<"}">>

\* "well-known", "3/4", "x^2", "5 - 3 = 2", "1e-5"
NormalizerExamples == {
    <<"w", "e", "l", "l", "-", "k", "n", "o", "w", "n">>,
    <<"3", "/", "4">>,
    <<"x", "^", "2">>,
    <<"5", " ", "-", " ", "3", " ", "=", " ", "2">>,
    <<"1", "e", "-", "5">>
}

NormalizerTexts ==
    NormalizerTokenTexts(MaxTokens)
      \cup {LatexText(form, a, b) : form \in LatexForms, a \in LatexArgs, b \in LatexArgs}
      \cup NormalizerExamples

\* The time n/d, in milliseconds
Ms(n, d) == [n |-> n, d |-> d]

\* Times of the timing records are counted in samples of the backend's
\* rate: kokoro_sample_rate / 1000 of them make one millisecond.
TicksPerMs == 24

MaxTimings == 2

\* The durations of the chunks of audio, in samples
ChunkTicks == {0, 7, 24, 1000}

\* phoneme_timings.append((phoneme, start_ms, end_ms)), one record for each
\* chunk, each starting where the one before has ended
TimingsOf(durations) ==
    [k \in DOMAIN durations |->
        [phoneme |-> "",
         start |-> SumSeq(SubSeq(durations, 1, k - 1)),
         end |-> SumSeq(SubSeq(durations, 1, k))]]

PhonemeTimings ==
    {TimingsOf(d) : d \in UNION {[1..m -> ChunkTicks] : m \in 0..MaxTimings}}

\* "", "a", "abc", "a b", "ab c", "a bc d", "3 5"
AlignTexts == {
    <<>>,
    <<"a">>,
    <<"a", "b", "c">>,
    <<"a", " ", "b">>,
    <<"a", "b", " ", "c">>,
    <<"a", " ", "b", "c", " ", "d">>,
    <<"3", " ", "5">>
}

\* re.findall(r'\S+', text)
Words(text) ==
    LET starts == {i \in DOMAIN text :
                      ~IsSpace(text[i]) /\ (i = 1 \/ IsSpace(text[i - 1]))}
        end(i) == Min({j \in i..Len(text) :
                          j = Len(text) \/ IsSpace(text[j + 1])})
    IN  [k \in 1..Cardinality(starts) |->
            SubSeq(text, Nth(starts, k), end(Nth(starts, k)))]

\* phoneme_timings[-1][2] if phoneme_timings else 0, in samples
total_duration(phoneme_timings) ==
    IF phoneme_timings = <<>> THEN 0
    ELSE phoneme_timings[Len(phoneme_timings)].end

\* A word alignment that divides by the length of the text.
generate_word_alignment_by_text_length(text, phoneme_timings) ==
    LET words == Words(text)
    IN  IF phoneme_timings = <<>> \/ words = <<>> THEN <<>>
        ELSE [k \in DOMAIN words |->
                [word |-> words[k],
                 start_ms |-> Ms(SumSeq([j \in 1..(k - 1) |-> Len(words[j])])
                                   * total_duration(phoneme_timings),
                                 TicksPerMs * Len(text)),
                 duration_ms |-> Ms(Len(words[k]) * total_duration(phoneme_timings),
                                    TicksPerMs * Len(text))]]

\* _generate_word_alignment: the total duration shared out to the words by
\* their lengths; current_time is the sum of the durations of the words
\* before.
generate_word_alignment(text, phoneme_timings) ==
    LET words == Words(text)
        total_chars == SumSeq([k \in DOMAIN words |-> Len(words[k])])
    IN  IF phoneme_timings = <<>> \/ words = <<>> THEN <<>>
        ELSE [k \in DOMAIN words |->
                [word |-> words[k],
                 start_ms |-> Ms(SumSeq([j \in 1..(k - 1) |-> Len(words[j])])
                                   * total_duration(phoneme_timings),
                                 TicksPerMs * total_chars),
                 duration_ms |-> Ms(Len(words[k]) * total_duration(phoneme_timings),
                                    TicksPerMs * total_chars)]]

\* The duration of a character when there are no timings, in milliseconds
FallbackCharDuration == 100

\* A character alignment that falls back whenever the total duration is 0.
generate_character_alignment_fallback_on_zero(text, phoneme_timings) ==
    IF total_duration(phoneme_timings) = 0
    THEN [i \in DOMAIN text |->
            [start_ms |-> Ms((i - 1) * 100, 1), duration_ms |-> Ms(100, 1)]]
    ELSE [i \in DOMAIN text |->
            [start_ms |-> Ms((i - 1) * total_duration(phoneme_timings),
                             TicksPerMs * Len(text)),
             duration_ms |-> Ms(total_duration(phoneme_timings),
                                TicksPerMs * Len(text))]]

\* _generate_character_alignment: char_duration = total_duration / len(text),
\* start_ms = i * char_duration; 100 ms for each character without timings
generate_character_alignment(text, phoneme_timings) ==
    IF phoneme_timings = <<>>
    THEN [i \in DOMAIN text |->
            [start_ms |-> Ms((i - 1) * FallbackCharDuration, 1),
             duration_ms |-> Ms(FallbackCharDuration, 1)]]
    ELSE [i \in DOMAIN text |->
            [start_ms |-> Ms((i - 1) * total_duration(phoneme_timings),
                             TicksPerMs * Len(text)),
             duration_ms |-> Ms(total_duration(phoneme_timings),
                                TicksPerMs * Len(text))]]

\* int(x) of a float that is not negative: the whole part of the exact
\* value, or, when the exact value is a whole number that the float
\* arithmetic (a division, a product, a running sum) may fall short of, the
\* number before it.  The values it can give.
IntMs(x) ==
    {x.n \div x.d}
      \cup (IF x.d > 1 /\ x.n > 0 /\ x.n % x.d = 0 THEN {x.n \div x.d - 1} ELSE {})

\* Steps 2, 3 and 5 of generate_audio_with_alignment: the two alignments
\* and the integer times of the result
AlignmentResult(processed_text, phoneme_timings) ==
    LET word_alignments == generate_word_alignment(processed_text, phoneme_timings)
        char_alignments == generate_character_alignment(processed_text, phoneme_timings)
    IN  [phoneme_timings |-> phoneme_timings,
         char_start_times_ms |->
            [i \in DOMAIN char_alignments |-> IntMs(char_alignments[i].start_ms)],
         char_durations_ms |->
            [i \in DOMAIN char_alignments |-> IntMs(char_alignments[i].duration_ms)],
         words |-> [k \in DOMAIN word_alignments |-> word_alignments[k].word],
         word_start_times_ms |->
            [k \in DOMAIN word_alignments |-> IntMs(word_alignments[k].start_ms)],
         word_durations_ms |->
            [k \in DOMAIN word_alignments |-> IntMs(word_alignments[k].duration_ms)]]

OpAlign(text, phoneme_timings) ==
    /\ calls = <<>>
    /\ \A s \in Sessions : pc[s] = "new"
    /\ calls' = <<Call("alignment", NoSession, text,
                       AlignmentResult(text, phoneme_timings))>>
    /\ UNCHANGED <<active_connections, session_data, ready, pc, cur, inbox,
                   transport, running, out, handled, passes>>

\* A sample is a number of quarters: -2.0, -1.75, ... 2.0
SampleDen == 4

Samples == (-2 * SampleDen)..(2 * SampleDen)

PcmScale == 32767

\* The whole part of a / b, towards zero
TruncDiv(a, b) == IF a >= 0 THEN a \div b ELSE -((-a) \div b)

\* astype(np.int16) of a float with the whole part v.  Out of the range of
\* int16 the conversion is not defined: the builds in use keep the low 16
\* bits, give the smallest value, or saturate.
Int16Cast(v) ==
    IF v >= -32768 /\ v <= 32767 THEN {v}
    ELSE {((v + 32768) % 65536) - 32768,
          -32768,
          IF v > 0 THEN 32767 ELSE -32768}

\* audio_int16 = (audio_data * 32767).astype(np.int16), for one sample of
\* the data that the resampler has put out
Encode(sample) == Int16Cast(TruncDiv(sample * PcmScale, SampleDen))

OpEncode(sample) ==
    /\ calls = <<>>
    /\ \A s \in Sessions : pc[s] = "new"
    /\ \E pcm \in Encode(sample) :
          calls' = <<Call("_audio_to_base64", NoSession, <<>>,
                          [sample |-> sample, pcm |-> pcm])>>
    /\ UNCHANGED <<active_connections, session_data, ready, pc, cur, inbox,
                   transport, running, out, handled, passes>>

EnginePayloads == {TextMsg(t) : t \in NormalizerExamples} \cup {FlushMsg}

\* processed_text = self._clean_text(text, original_text_for_log), called
\* on an engine that serves no session
OpCleanText(text) ==
    /\ calls = <<>>
    /\ \A s \in Sessions : pc[s] = "new"
    /\ calls' = <<Call("_clean_text", NoSession, text, CleanText(text))>>
    /\ UNCHANGED <<active_connections, session_data, ready, pc, cur, inbox,
                   transport, running, out, handled, passes>>

\* Either one function of the engine is called, or one session sends the
\* examples and flushes.
EngineNext ==
    \/ \E text \in NormalizerTexts : OpCleanText(text)
    \/ \E text \in AlignTexts : \E phoneme_timings \in PhonemeTimings :
          OpAlign(text, phoneme_timings)
    \/ \E sample \in Samples : OpEncode(sample)
    \/ \E s \in CapSessions :
          \/ calls = <<>> /\ Connect(s)
          \/ \E payload \in EnginePayloads : ClientSend(s, payload)
          \/ RecvText(s)
          \/ RecvFlush(s)
          \/ BackendReturnsResult(s)
          \/ BackendReturnsNone(s)
          \/ SendResult(s)

EngineSpec == Init /\ [][EngineNext]_vars

----------------------------------------------------------------------------
(* Properties *)

\* The messages that empty a session: {"text": " "} and {"reset": true}
Resets(p) ==
    /\ p.valid
    /\ p.obj
    /\ \/ p.has_text /\ p.text = InitMarker
       \/ ~p.has_text /\ ~p.flush /\ p.reset

\* The messages that carry content
Appends(p) == p.valid /\ p.obj /\ p.has_text /\ p.text \notin {InitMarker, <<>>}

Flushes(p) == p.valid /\ p.obj /\ ~p.has_text /\ p.flush

Closes(p) == p.valid /\ p.obj /\ p.has_text /\ p.text = <<>>

\* The texts of the content messages of the history h since its last
\* init or reset, in the order of their arrival
RECURSIVE AppendedSinceReset(_)
AppendedSinceReset(h) ==
    IF h = <<>> THEN <<>>
    ELSE LET p == h[Len(h)].payload
             before == SubSeq(h, 1, Len(h) - 1)
         IN  IF Resets(p) THEN <<>>
             ELSE IF Appends(p) THEN AppendedSinceReset(before) \o p.text
             ELSE AppendedSinceReset(before)

\* C1: in every reachable state the transcript (full_text) of a session is
\* the concatenation, in arrival order, of the texts appended since the last
\* init or reset, or since connect; passes, flushes, failures and error
\* messages leave it alone.
C1_TranscriptIsAppendedText ==
    \A s \in DOMAIN session_data :
        session_data[s].full_text = AppendedSinceReset(handled[s])

\* A pass has emitted its result and cleared the buffer, a later text sits
\* in the buffer, and the transcript holds both.
C1_TranscriptOutlivesPass ==
    \E s \in DOMAIN session_data :
        /\ \E i \in DOMAIN out[s] : out[s][i].type = "result"
        /\ session_data[s].text_buffer /= <<>>
        /\ Len(session_data[s].full_text) > Len(session_data[s].text_buffer)

\* Pass i of session s has run to its end: the backend has returned and the
\* handler is past the send of the result.
PassOver(s, i) ==
    /\ passes[s][i].outcome /= "pending"
    /\ ~(i = Len(passes[s]) /\ pc[s] = "send_result")

\* The outbound messages of s that the pass i of s has emitted
EmittedBy(s, i) == {k \in DOMAIN out[s] : out[s][k].by = passes[s][i].by}

\* C2: every synthesis pass started on a non-blank buffer emits exactly one
\* outbound message, a result message when the backend succeeds and an error
\* message when the backend call fails or returns no usable output; no
\* failure is swallowed.  (Stated for sessions whose client is still there:
\* a send to a client that has gone is the write failure.)
C2_EveryPassEmitsOneMessage ==
    \A s \in Sessions : \A i \in DOMAIN passes[s] :
        (PassOver(s, i) /\ transport[s] = "open") =>
            /\ Cardinality(EmittedBy(s, i)) = 1
            /\ \A k \in EmittedBy(s, i) :
                  out[s][k].type =
                      IF passes[s][i].outcome = "result" THEN "result" ELSE "error"

\* The same without choice in the backend: the buffer "\x" normalizes to
\* blank text, generate_audio_with_alignment returns None, and the pass of
\* the flush ends with nothing sent.
C2_BlankNormalizedPassEmitsMessage ==
    \A s \in Sessions : \A i \in DOMAIN passes[s] :
        (/\ PassOver(s, i)
         /\ transport[s] = "open"
         /\ IsBlank(CleanText(passes[s][i].text))) => EmittedBy(s, i) /= {}

\* The step sends a result message of session s.
EmitsResult(s) ==
    /\ Len(out'[s]) = Len(out[s]) + 1
    /\ out'[s][Len(out'[s])].type = "result"

\* C3: a successful pass emits exactly one result message and then leaves
\* the buffer empty and the transcript as it was before the pass; the buffer
\* is not cleared before the result message has been emitted.
C3_EmitThenClear ==
    [][\A s \in Sessions :
          EmitsResult(s) =>
              /\ out'[s] = Append(out[s], cur[s].result)
              /\ \A k \in DOMAIN out[s] : out[s][k].by /= cur[s].by
              /\ s \in DOMAIN session_data =>
                    /\ session_data[s].text_buffer = cur[s].text_buffer
                    /\ session_data[s].text_buffer = cur[s].result.original_text
                    /\ ~IsBlank(session_data[s].text_buffer)
                    /\ session_data[s].full_text = cur[s].result.full_text
              /\ s \in DOMAIN session_data' =>
                    /\ session_data'[s].text_buffer = <<>>
                    /\ session_data'[s].full_text = session_data[s].full_text
                    /\ session_data'[s].full_text = cur[s].result.full_text]_vars

\* A pass has succeeded and its session goes on: the result is out, the
\* buffer is empty and the transcript still holds the spoken text.
C3_AfterSuccessfulPass ==
    \E s \in DOMAIN session_data :
        /\ pc[s] = "recv"
        /\ out[s] /= <<>>
        /\ out[s][Len(out[s])].type = "result"
        /\ out[s][Len(out[s])].by = Len(handled[s])
        /\ session_data[s].text_buffer = <<>>
        /\ session_data[s].full_text = out[s][Len(out[s])].full_text
        /\ session_data[s].full_text /= <<>>

\* The step is the return of a failed backend call of session s.
FailsPass(s) ==
    /\ pc[s] = "synth"
    /\ passes'[s][Len(passes[s])].outcome = "none"

\* What a failed pass leaves behind, the fate of the session apart: buffer
\* and transcript are what they were when the pass began, and the backend
\* is not called again for the message.
FailedPassKeepsText(s) ==
    /\ s \in DOMAIN session_data =>
          session_data[s].text_buffer = cur[s].text_buffer
    /\ \A x \in DOMAIN session_data \cap DOMAIN session_data' :
          session_data'[x] = session_data[x]
    /\ passes'[s] = [passes[s] EXCEPT ![Len(passes[s])].outcome = "none"]
    /\ pc'[s] /= "synth"
    /\ running' = NoSession

\* A backend call is for a message later than those of the calls before it.
OneCallPerMessage(s) ==
    Len(passes'[s]) > Len(passes[s]) =>
        /\ passes'[s] = Append(passes[s], passes'[s][Len(passes'[s])])
        /\ \A i \in DOMAIN passes[s] :
              passes[s][i].by < passes'[s][Len(passes'[s])].by

\* C4 as stated: when a pass fails, buffer and transcript are left as they
\* were before the pass, the backend is not called again for that pass, and
\* the session continues to accept and process later inbound messages.
C4_FailedPassSessionContinues ==
    [][\A s \in Sessions :
          /\ OneCallPerMessage(s)
          /\ FailsPass(s) =>
                /\ FailedPassKeepsText(s)
                /\ pc'[s] = "recv"
                /\ session_data' = session_data
                /\ inbox'[s] = inbox[s]]_vars

\* C4 with the final pass set apart: when a pass fails, buffer and
\* transcript are left as they were before the pass and the backend is not
\* called again for that pass; the session continues to accept and process
\* later inbound messages unless the pass was the final pass of an
\* empty-text message, after which the session is closed and its record
\* removed.
C4_FailedPassKeepsTextNoRetry ==
    [][\A s \in Sessions :
          /\ OneCallPerMessage(s)
          /\ FailsPass(s) =>
                /\ FailedPassKeepsText(s)
                /\ cur[s].why /= "close" =>
                      /\ pc'[s] = "recv"
                      /\ session_data' = session_data
                      /\ inbox'[s] = inbox[s]
                /\ cur[s].why = "close" =>
                      /\ pc'[s] = "closed"
                      /\ s \notin DOMAIN session_data']_vars

\* A pass has failed, the session has gone on to a later message, and that
\* message has started a pass on the buffer the failed pass left.
C4_LaterMessageAfterFailedPass ==
    \E s \in DOMAIN session_data :
        \E i, j \in DOMAIN passes[s] :
            /\ i < j
            /\ passes[s][i].outcome = "none"
            /\ passes[s][j].text = passes[s][i].text
            /\ passes[s][j].by > passes[s][i].by

\* The step takes the next inbound message of session s.
Handles(s) == inbox[s] /= <<>> /\ handled'[s] = Append(handled[s], NextFrame(s))

\* The step starts a pass of session s on the text t.
StartsPass(s, t) ==
    /\ pc'[s] = "synth"
    /\ running' = s
    /\ passes'[s] = Append(passes[s], [by |-> Len(handled'[s]), text |-> t,
                                        outcome |-> "pending"])

\* The step neither calls the backend nor sends anything for session s, and
\* the handler of s waits for its next message.
StaysQuiet(s) ==
    /\ pc'[s] = "recv"
    /\ passes' = passes
    /\ running' = NoSession
    /\ out' = out

\* C5: a non-empty, non-marker text message appends its text to the end of
\* both buffer and transcript; a pass is run if and only if the
\* Segmentation Policy is true of the whole buffer after the append, and
\* when it is false there is no backend call and no outbound message;
\* append on an absent session id is a no-op.
C5_TextAppendsAndPolicyDecides ==
    [][\A s \in Sessions :
          (Handles(s) /\ Appends(NextFrame(s).payload)) =>
              LET text == NextFrame(s).payload.text IN
              /\ out' = out
              /\ \A x \in Sessions \ {s} :
                    x \in DOMAIN session_data =>
                        x \in DOMAIN session_data' /\ session_data'[x] = session_data[x]
              /\ s \notin DOMAIN session_data =>
                    session_data' = session_data /\ StaysQuiet(s)
              /\ s \in DOMAIN session_data =>
                    /\ DOMAIN session_data' = DOMAIN session_data
                    /\ session_data'[s].text_buffer = session_data[s].text_buffer \o text
                    /\ session_data'[s].full_text = session_data[s].full_text \o text
                    /\ session_data'[s].is_active = session_data[s].is_active
                    /\ IF ShouldProcess(session_data[s].text_buffer \o text)
                       THEN StartsPass(s, session_data[s].text_buffer \o text)
                       ELSE StaysQuiet(s)]_vars

\* Session s1 has taken a text that does not end a sentence: it sits in the
\* buffer and nothing was called or sent.  Session s2 has taken a text that
\* does: a pass was started on it.
C5_OneTextWaitsOneIsSpoken ==
    /\ {"s1", "s2"} \subseteq DOMAIN session_data
    /\ Len(handled["s1"]) = 1
    /\ Appends(handled["s1"][1].payload)
    /\ session_data["s1"].text_buffer = handled["s1"][1].payload.text
    /\ session_data["s1"].full_text = handled["s1"][1].payload.text
    /\ ~ShouldProcess(session_data["s1"].text_buffer)
    /\ passes["s1"] = <<>>
    /\ out["s1"] = <<>>
    /\ Len(handled["s2"]) = 1
    /\ Appends(handled["s2"][1].payload)
    /\ Len(passes["s2"]) = 1
    /\ passes["s2"][1].text = handled["s2"][1].payload.text
    /\ ShouldProcess(passes["s2"][1].text)

\* A text message was taken for a session whose record is gone.
AppendOnAbsentId ==
    \E s \in Sessions :
        /\ s \notin DOMAIN session_data
        /\ pc[s] = "recv"
        /\ handled[s] /= <<>>
        /\ Appends(handled[s][Len(handled[s])].payload)

\* C6 as stated: a flush message bypasses the Segmentation Policy and
\* always triggers a synthesis pass on the current buffer of the session, in
\* any state and whatever shouldProcess says of that buffer; the session
\* remains Active.
C6_FlushAlwaysStartsPass ==
    [][\A s \in Sessions :
          (Handles(s) /\ Flushes(NextFrame(s).payload)) =>
              /\ StartsPass(s, get_text_buffer(session_data, s))
              /\ session_data' = session_data]_vars

\* C6 with the blank buffer set apart: a flush message bypasses the
\* Segmentation Policy and triggers a synthesis pass on the current buffer
\* whenever that buffer holds more than whitespace, whatever shouldProcess
\* says of it; on an empty or whitespace-only buffer, or for a session
\* without a record, the flush calls no backend and sends nothing.  The
\* session remains Active: neither the flush nor the end of its pass closes
\* it or removes its record.
C6_FlushStartsPassUnlessBlank ==
    [][\A s \in Sessions :
          /\ (Handles(s) /\ Flushes(NextFrame(s).payload)) =>
                LET text_buffer == get_text_buffer(session_data, s) IN
                /\ session_data' = session_data
                /\ out' = out
                /\ IF IsBlank(text_buffer)
                   THEN StaysQuiet(s)
                   ELSE StartsPass(s, text_buffer)
          /\ (cur[s].why = "flush" /\ (FailsPass(s) \/ EmitsResult(s))) =>
                /\ pc'[s] = "recv"
                /\ DOMAIN session_data' = DOMAIN session_data]_vars

\* A flush has started a pass on a buffer of which the policy is false.
C6_FlushOverridesPolicy ==
    \E s \in DOMAIN session_data :
        /\ pc[s] = "synth"
        /\ cur[s].why = "flush"
        /\ Flushes(handled[s][Len(handled[s])].payload)
        /\ cur[s].text_buffer = session_data[s].text_buffer
        /\ ~ShouldProcess(cur[s].text_buffer)

\* Session s is closed in the state after the step: the handler has ended
\* and registry and connection table hold nothing of it.
ClosedAfter(s) ==
    /\ pc'[s] = "closed"
    /\ s \notin DOMAIN session_data'
    /\ s \notin active_connections'

\* What holds of an empty-text message whatever the buffer: nothing is sent
\* by the step that takes it, the pass it starts is the only one and ends in
\* Closed whether it succeeds or fails, and a closed session takes no
\* further message, calls no backend and sends nothing.
CloseIsFinal(s) ==
    /\ (Handles(s) /\ Closes(NextFrame(s).payload)) => out' = out
    /\ (cur[s].why = "close" /\ pc'[s] /= pc[s]) =>
          /\ passes'[s] = [passes[s] EXCEPT ![Len(passes[s])].outcome =
                                                passes'[s][Len(passes[s])].outcome]
          /\ \/ pc[s] = "synth" /\ pc'[s] = "send_result" /\ cur'[s].why = "close"
             \/ ClosedAfter(s)
    /\ (handled[s] /= <<>> /\ Closes(handled[s][Len(handled[s])].payload)) =>
          /\ handled'[s] = handled[s]
          /\ pc'[s] \in {"synth", "send_result", "closed"}
    /\ pc[s] = "closed" =>
          /\ ClosedAfter(s)
          /\ handled'[s] = handled[s]
          /\ passes'[s] = passes[s]
          /\ out'[s] = out[s]

\* C7 as stated: on an empty-text message, if the buffer is non-empty
\* exactly one final pass is run, and if the buffer is empty no outbound
\* message is emitted; in both cases the session then goes to Closed, no
\* later message of it is processed and its record is removed, even if the
\* final pass fails.
C7_CloseRunsFinalPassIfNonEmpty ==
    [][\A s \in Sessions :
          /\ CloseIsFinal(s)
          /\ (Handles(s) /\ Closes(NextFrame(s).payload)) =>
                IF get_text_buffer(session_data, s) /= <<>>
                THEN StartsPass(s, get_text_buffer(session_data, s))
                ELSE ClosedAfter(s) /\ passes' = passes]_vars

\* C7 with the whitespace-only buffer set apart: on an empty-text message,
\* if the buffer holds more than whitespace exactly one final pass is run,
\* and if the buffer is empty or whitespace-only no pass is run and no
\* outbound message is emitted; in both cases the session then goes to
\* Closed, no later message of it is processed and its record is removed,
\* even if the final pass fails.
C7_CloseRunsFinalPassIfNonBlank ==
    [][\A s \in Sessions :
          /\ CloseIsFinal(s)
          /\ (Handles(s) /\ Closes(NextFrame(s).payload)) =>
                IF ~IsBlank(get_text_buffer(session_data, s))
                THEN /\ StartsPass(s, get_text_buffer(session_data, s))
                     /\ cur'[s].why = "close"
                     /\ session_data' = session_data
                ELSE ClosedAfter(s) /\ passes' = passes]_vars

\* The final pass of a session has failed, nothing was sent, and the session
\* is closed and its record removed.
C7_ClosedAfterFailedFinalPass ==
    \E s \in Sessions :
        /\ pc[s] = "closed"
        /\ s \notin DOMAIN session_data
        /\ handled[s] /= <<>>
        /\ Closes(handled[s][Len(handled[s])].payload)
        /\ passes[s] /= <<>>
        /\ passes[s][Len(passes[s])].by = Len(handled[s])
        /\ passes[s][Len(passes[s])].outcome = "none"
        /\ out[s] = <<>>
        /\ ready

\* An empty-text message has closed a session whose buffer held only
\* whitespace, without a pass.
CloseOnWhitespaceBuffer ==
    \E s \in Sessions :
        /\ pc[s] = "closed"
        /\ Len(handled[s]) = 2
        /\ handled[s][1].payload = TextMsg(<<" ", " ">>)
        /\ Closes(handled[s][2].payload)
        /\ passes[s] = <<>>

\* C8: from any session state an init marker ({"text": " "}) or a reset flag
\* ({"reset": true}) sets buffer and transcript to empty and active to true,
\* discarding pending text without a pass and without an outbound message;
\* the two messages have the same effect, and initialize on an absent id is
\* a no-op.
C8_InitAndResetEmptySession ==
    [][\A s \in Sessions :
          (Handles(s) /\ Resets(NextFrame(s).payload)) =>
              /\ StaysQuiet(s)
              /\ active_connections' = active_connections
              /\ IF s \in DOMAIN session_data
                 THEN session_data' =
                          [session_data EXCEPT ![s] =
                              [text_buffer |-> <<>>, full_text |-> <<>>,
                               is_active |-> TRUE]]
                 ELSE session_data' = session_data]_vars

\* Text that was waiting in the buffer has been discarded by an init marker
\* or a reset: the session is empty, and nothing was called or sent.
C8_PendingTextDiscarded ==
    \E s \in DOMAIN session_data :
        /\ Len(handled[s]) = 2
        /\ Appends(handled[s][1].payload)
        /\ Resets(handled[s][2].payload)
        /\ session_data[s] = NewSessionRecord
        /\ passes[s] = <<>>
        /\ out[s] = <<>>
        /\ pc[s] = "recv"

\* The same for each of the two messages
DiscardedBy(p) ==
    \E s \in DOMAIN session_data :
        /\ Len(handled[s]) = 2
        /\ Appends(handled[s][1].payload)
        /\ handled[s][2].payload = p
        /\ session_data[s] = NewSessionRecord

DiscardedByInitMarker == DiscardedBy(TextMsg(InitMarker))

DiscardedByReset == DiscardedBy(ResetMsg)

\* An init marker or a reset was taken for a session whose record is gone.
InitializeOnAbsentId ==
    \E s \in Sessions :
        /\ s \notin DOMAIN session_data
        /\ pc[s] = "recv"
        /\ handled[s] /= <<>>
        /\ Resets(handled[s][Len(handled[s])].payload)

\* The handler of s is between two messages.
BetweenMessages(s) ==
    /\ pc[s] = "recv"
    /\ cur[s] = Idle
    /\ \A i \in DOMAIN passes[s] : passes[s][i].outcome /= "pending"

\* C9: the inbound messages of a session are handled one at a time in the
\* order of their arrival: message n+1 is not taken before the handling of
\* message n, with its pass and its outbound message, is over; so the
\* outbound messages of a session come in the order of the inbound messages
\* that triggered them.
C9_OneMessageAtATimeInOrder ==
    [][\A s \in Sessions :
          /\ handled'[s] /= handled[s] =>
                /\ Handles(s)
                /\ BetweenMessages(s)
                /\ NextFrame(s).seq = Len(handled[s]) + 1
                /\ \A i \in DOMAIN inbox'[s] :
                      inbox'[s][i].kind = "text" => inbox'[s][i].seq > NextFrame(s).seq
          /\ passes'[s] /= passes[s] =>
                \A i \in DOMAIN passes'[s] : passes'[s][i].by <= Len(handled'[s])
          /\ (pc'[s] \notin {"new", "recv", "closed"}) =>
                cur'[s].by = Len(handled'[s])
          /\ out'[s] /= out[s] =>
                /\ out'[s] = Append(out[s], out'[s][Len(out'[s])])
                /\ out'[s][Len(out'[s])].by = Len(handled[s])
                /\ handled'[s] = handled[s]
                /\ \A k \in DOMAIN out[s] : out[s][k].by < Len(handled[s])]_vars

\* Two messages of one session have each been answered by a result, the
\* first before the second.
C9_TwoResultsInOrder ==
    \E s \in Sessions :
        /\ Len(handled[s]) = 2
        /\ Len(out[s]) = 2
        /\ out[s][1].type = "result" /\ out[s][1].by = 1
        /\ out[s][2].type = "result" /\ out[s][2].by = 2

\* A message of a session waits in the queue while the pass of the message
\* before it is outstanding.
NextMessageWaitsForPass ==
    \E s \in Sessions :
        /\ pc[s] \in {"synth", "send_result"}
        /\ inbox[s] /= <<>>
        /\ Head(inbox[s]).kind = "text"

\* The handler of session s takes its next frame.
Receive(s) ==
    \/ RecvDisconnect(s)
    \/ RecvMalformed(s)
    \/ RecvNonObject(s)
    \/ RecvInit(s)
    \/ RecvClose(s)
    \/ RecvText(s)
    \/ RecvFlush(s)
    \/ RecvReset(s)
    \/ RecvUnknown(s)

\* C10: while the backend call of a pass is outstanding for one session, any
\* other session can still have its inbound messages received and handled:
\* a slow or failing backend call for session A never blocks the message
\* loop of session B, and never changes the buffer or transcript of B.
C10_BackendCallBlocksNoOtherSession ==
    \A A, B \in Sessions :
        (/\ A /= B
         /\ pc[A] = "synth"
         /\ pc[B] = "recv"
         /\ inbox[B] /= <<>>) => ENABLED Receive(B)

\* The half of C10 that holds: a step of the backend call of A leaves the
\* records of every other session as they are.
BackendCallKeepsOtherSessions ==
    [][\A A \in Sessions :
          pc[A] = "synth" =>
              \A B \in (DOMAIN session_data) \ {A} :
                  B \in DOMAIN session_data' /\ session_data'[B] = session_data[B]]_vars

\* Session B waits in receive_text with a frame in its queue while the
\* backend call of session A holds the event loop.
OtherSessionWaitsForBackend ==
    \E A, B \in Sessions :
        /\ A /= B
        /\ pc[A] = "synth"
        /\ running = A
        /\ pc[B] = "recv"
        /\ inbox[B] /= <<>>

----------------------------------------------------------------------------
(* Progress *)

\* A step of the coroutine of session s
Handler(s) ==
    \/ Receive(s)
    \/ BackendReturnsResult(s)
    \/ BackendReturnsNone(s)
    \/ SendResult(s)
    \/ \E raised \in SendErrors : SendResultFails(s, raised)
    \/ SendJsonError(s)
    \/ SendProcessingError(s)

\* The record of s is in the registry before the step and not after it.
Removed(s) == s \in DOMAIN session_data /\ s \notin DOMAIN session_data'

\* The step leaves the record of every session but s as it is.
OthersKept(s) ==
    \A x \in Sessions \ {s} :
        /\ x \in DOMAIN session_data =>
              x \in DOMAIN session_data' /\ session_data'[x] = session_data[x]
        /\ x \in active_connections <=> x \in active_connections'
        /\ pc'[x] = pc[x]

\* Session s is closed: its handler has ended and the registry holds
\* nothing of it.
IsClosed(s) ==
    /\ pc[s] = "closed"
    /\ s \notin DOMAIN session_data
    /\ s \notin active_connections

\* The steps the handler of s has before it at most, once its client has
\* gone: three for every frame in its queue, and those of the frame it is
\* working on.
StepsLeft(s) ==
    IF pc[s] = "closed" THEN 0
    ELSE 3 * Len(inbox[s])
           + (CASE pc[s] = "synth" -> 2
                [] pc[s] \in {"send_result", "send_json_error",
                              "send_processing_error"} -> 1
                [] OTHER -> 0)

\* Some branch of the loop takes the frame f: the tests of the receive
\* steps leave no frame out.
SomeBranchTakes(f) ==
    \/ f.kind = "disconnect"
    \/ /\ f.kind = "text"
       /\ \/ ~f.payload.valid
          \/ f.payload.valid /\ ~f.payload.obj
          \/ /\ f.payload.valid
             /\ f.payload.obj
             /\ \/ f.payload.has_text /\ f.payload.text = InitMarker
                \/ f.payload.has_text /\ f.payload.text = <<>>
                \/ f.payload.has_text /\ f.payload.text \notin {InitMarker, <<>>}
                \/ ~f.payload.has_text /\ f.payload.flush
                \/ ~f.payload.has_text /\ ~f.payload.flush /\ f.payload.reset
                \/ ~f.payload.has_text /\ ~f.payload.flush /\ ~f.payload.reset

\* The guards of the steps of the handler of s: it can take a frame, its
\* backend call can return, or its send can complete or fail.
HandlerReady(s) ==
    \/ CanReceive(s) /\ SomeBranchTakes(NextFrame(s))
    \/ pc[s] = "synth" /\ running = s
    \/ /\ pc[s] \in {"send_result", "send_json_error", "send_processing_error"}
       /\ running = NoSession

\* The handler of a session whose client has gone is never stuck: the
\* disconnect waits in its queue, and either it can take a step or the
\* backend call that holds the loop can return.
DisconnectedCanProceed(s) ==
    (transport[s] = "closed" /\ pc[s] /= "closed") =>
        /\ \E i \in DOMAIN inbox[s] : inbox[s][i].kind = "disconnect"
        /\ \/ HandlerReady(s)
           \/ running \in Sessions \ {s} /\ HandlerReady(running)

\* C11: a transport disconnect in any session state (idle, accumulating, or
\* with a pass in flight) leads to the record of the session being removed,
\* exactly once; no outbound message is delivered for the session after the
\* disconnect (a result in flight is discarded), and no record of another
\* session is changed.  That the removal comes is stated by a bound: the
\* handler can always go on, each of its steps brings StepsLeft down, no
\* other step brings it up, and at 0 the session is closed.
C11_DisconnectReleasesSession ==
    /\ [](\A s \in Sessions :
             /\ DisconnectedCanProceed(s)
             /\ pc[s] = "closed" => IsClosed(s))
    /\ [][\A s \in Sessions :
             /\ transport[s] = "closed" =>
                   /\ out'[s] = out[s]
                   /\ transport'[s] = "closed"
                   /\ StepsLeft(s)' <= StepsLeft(s)
                   /\ (pc'[s] /= pc[s] \/ inbox'[s] /= inbox[s]) =>
                         StepsLeft(s)' < StepsLeft(s)
             /\ (Removed(s) /\ ready') => (ClosedAfter(s) /\ OthersKept(s))
             /\ (pc[s] /= "new" /\ s \notin DOMAIN session_data) =>
                   s \notin DOMAIN session_data']_vars

\* The client of s went away while the backend call of s was running: the
\* call returned a result, the result was not delivered, and the session is
\* closed.
C11_ResultInFlightDiscarded ==
    \E s \in Sessions :
        /\ IsClosed(s)
        /\ transport[s] = "closed"
        /\ ready
        /\ passes[s] /= <<>>
        /\ passes[s][Len(passes[s])].outcome = "result"
        /\ \A k \in DOMAIN out[s] : out[s][k].by /= passes[s][Len(passes[s])].by

Sending == {"send_result", "send_json_error", "send_processing_error"}

\* The step is a send of session s that fails: the client has gone.
FailsSend(s) ==
    /\ pc[s] \in Sending
    /\ transport[s] = "closed"
    /\ pc'[s] /= pc[s]

\* The handler of s is back in its loop with the disconnect in its queue:
\* what is left to it is bounded, and ends with the session closed.
BackInLoopToBeClosed(s) ==
    /\ pc'[s] = "recv"
    /\ transport'[s] = "closed"
    /\ \E i \in DOMAIN inbox'[s] : inbox'[s][i].kind = "disconnect"
    /\ StepsLeft(s)' < StepsLeft(s)

LoopGoesOnAfterFailedSend ==
    \E s \in Sessions :
        /\ pc[s] = "recv"
        /\ transport[s] = "closed"
        /\ passes[s] /= <<>>
        /\ passes[s][Len(passes[s])].outcome = "result"
        /\ \A k \in DOMAIN out[s] : out[s][k].by /= passes[s][Len(passes[s])].by
        /\ s \in DOMAIN session_data
        /\ session_data[s].text_buffer /= <<>>

\* C13: a malformed (non-JSON) inbound payload produces exactly one
\* outbound message, {"error": "Invalid JSON format"}, leaves buffer,
\* transcript and state of the session unchanged, and keeps the channel
\* open, so that later messages are still processed.
C13_MalformedPayloadAnswered ==
    [][\A s \in Sessions :
          /\ (Handles(s) /\ ~NextFrame(s).payload.valid) =>
                /\ pc'[s] = "send_json_error"
                /\ cur'[s].by = Len(handled'[s])
                /\ session_data' = session_data
                /\ active_connections' = active_connections
                /\ out' = out
                /\ passes' = passes
                /\ running' = NoSession
          /\ (pc[s] = "send_json_error" /\ transport[s] = "open" /\ pc'[s] /= pc[s]) =>
                /\ out'[s] = Append(out[s],
                                    ErrorMessage(Len(handled[s]), "Invalid JSON format"))
                /\ \A k \in DOMAIN out[s] : out[s][k].by /= Len(handled[s])
                /\ pc'[s] = "recv"
                /\ session_data' = session_data
                /\ active_connections' = active_connections
                /\ transport' = transport
                /\ inbox' = inbox
                /\ passes' = passes
          /\ (pc[s] /= "send_json_error" /\ out'[s] /= out[s]) =>
                out'[s][Len(out'[s])].error /= "Invalid JSON format"]_vars

\* A malformed payload was answered with the error message, and the text
\* message after it was taken and appended.
C13_MessageAfterMalformedHandled ==
    \E s \in DOMAIN session_data :
        /\ Len(handled[s]) = 2
        /\ ~handled[s][1].payload.valid
        /\ Appends(handled[s][2].payload)
        /\ session_data[s].full_text = handled[s][2].payload.text
        /\ out[s] /= <<>>
        /\ out[s][1] = ErrorMessage(1, "Invalid JSON format")
        /\ \A k \in DOMAIN out[s] : k > 1 => out[s][k].by = 2

\* The payload is valid JSON of no recognized shape: a value that is no
\* object, or an object without "text" whose flags are false.
UnrecognizedShape(payload) ==
    /\ payload.valid
    /\ \/ ~payload.obj
       \/ ~payload.has_text /\ ~payload.flush /\ ~payload.reset

\* C14: valid JSON of unrecognized shape -- including JSON values that are
\* not objects and objects whose flags are false -- is a no-op: no outbound
\* message is produced for it and the session state is unchanged.
C14_UnrecognizedShapeIsNoOp ==
    /\ [](\A s \in Sessions : \A k \in DOMAIN handled[s] :
             UnrecognizedShape(handled[s][k].payload) =>
                \A j \in DOMAIN out[s] : out[s][j].by /= k)
    /\ [][\A s \in Sessions :
             (Handles(s) /\ UnrecognizedShape(NextFrame(s).payload)) =>
                /\ session_data' = session_data
                /\ active_connections' = active_connections
                /\ out' = out
                /\ passes' = passes]_vars

\* What the handler does with an object of unrecognized shape: nothing.
UnknownObjectIsNoOp ==
    [][\A s \in Sessions :
          (Handles(s) /\ UnrecognizedShape(NextFrame(s).payload)
                      /\ NextFrame(s).payload.obj) =>
             /\ pc'[s] = "recv"
             /\ cur'[s] = Idle
             /\ session_data' = session_data
             /\ active_connections' = active_connections
             /\ out' = out
             /\ passes' = passes]_vars

\* A JSON value that is no object was answered with "Processing error".
NonObjectAnsweredWithError ==
    \E s \in Sessions : \E k \in DOMAIN handled[s] : \E j \in DOMAIN out[s] :
        /\ UnrecognizedShape(handled[s][k].payload)
        /\ ~handled[s][k].payload.obj
        /\ out[s][j] = ErrorMessage(k, "Processing error")

-----------------------------------------------------------------------------
(* The registry *)

\* The step is the call op(id) on the registry.
Called(op, id) ==
    /\ Len(calls') = Len(calls) + 1
    /\ calls'[Len(calls')].op = op
    /\ calls'[Len(calls')].id = id

Present(id) == id \in DOMAIN session_data \/ id \in active_connections

\* C15: connect(id) for an id that is absent creates a record with empty
\* buffer and transcript and active = true; connect(id) for an id that is
\* already present fails, it does not replace or reset the record.
C15_ConnectCreatesOrFails ==
    [][\A id \in Sessions :
          Called("connect", id) =>
             IF Present(id)
             THEN /\ session_data' = session_data
                  /\ active_connections' = active_connections
             ELSE /\ id \in active_connections'
                  /\ id \in DOMAIN session_data'
                  /\ session_data'[id].text_buffer = <<>>
                  /\ session_data'[id].full_text = <<>>
                  /\ session_data'[id].is_active]_vars

\* What connect does: the record of id is a new one whatever was there.
ConnectCreatesRecord ==
    [][\A id \in Sessions :
          Called("connect", id) =>
             /\ session_data' = connect(session_data, id)
             /\ session_data'[id] = NewSessionRecord
             /\ active_connections' = active_connections \cup {id}
             /\ \A other \in DOMAIN session_data \ {id} :
                   session_data'[other] = session_data[other]]_vars

\* A second connect has replaced a record that held text.
ConnectReplacedRecord ==
    \E id \in DOMAIN session_data :
        /\ Len(calls) = 3
        /\ calls[1] = Call("connect", id, <<>>, <<>>)
        /\ calls[2].op = "add_text_chunk" /\ calls[2].id = id
        /\ calls[2].text /= <<>>
        /\ calls[3] = Call("connect", id, <<>>, <<>>)
        /\ session_data[id] = NewSessionRecord

\* C16: connect(id) followed by disconnect(id) leaves no entry for id in
\* either map; disconnect(id) on an absent id, a second disconnect
\* included, changes nothing and is no error.
C16_DisconnectRemovesOnce ==
    [][\A id \in Sessions :
          Called("disconnect", id) =>
             /\ ~Present(id)'
             /\ ~Present(id) =>
                   /\ session_data' = session_data
                   /\ active_connections' = active_connections
             /\ \A other \in Sessions \ {id} :
                   /\ other \in active_connections' <=> other \in active_connections
                   /\ other \in DOMAIN session_data' <=> other \in DOMAIN session_data
                   /\ other \in DOMAIN session_data =>
                         session_data'[other] = session_data[other]]_vars

\* connect, disconnect and a second disconnect on one id have returned,
\* and the registry holds nothing for it.
C16_SecondDisconnectReturned ==
    \E id \in Sessions :
        /\ calls = <<Call("connect", id, <<>>, <<>>),
                     Call("disconnect", id, <<>>, <<>>),
                     Call("disconnect", id, <<>>, <<>>)>>
        /\ ~Present(id)

\* The step is made by the handler of s: an operation of the registry
\* called for s, a step of its pass, a send, or the end of its loop.
HandlerStep(s) ==
    \/ pc'[s] /= pc[s]
    \/ handled'[s] /= handled[s]
    \/ cur'[s] /= cur[s]
    \/ out'[s] /= out[s]

\* The step leaves what the registry holds for s as it is.
RecordKept(s) ==
    /\ s \in active_connections' <=> s \in active_connections
    /\ s \in DOMAIN session_data' <=> s \in DOMAIN session_data
    /\ s \in DOMAIN session_data => session_data'[s] = session_data[s]

\* C17: every operation of the registry on session A -- initialize, append,
\* clearBuffer, readBuffer, disconnect -- and every pass for A leave buffer,
\* transcript and active flag of every other session B unchanged, in any
\* interleaving of the two sessions.
C17_OperationsAreLocalToSession ==
    [][\A A \in Sessions :
          HandlerStep(A) => \A B \in Sessions \ {A} : RecordKept(B)]_vars

\* The same of the operations called directly, in any order.
RegistryCallsAreLocalToSession ==
    [][\A A \in Sessions :
          (\E op \in {"connect", "disconnect", "initialize_session",
                       "add_text_chunk", "get_text_buffer", "clear_text_buffer"} :
              Called(op, A))
          => \A B \in Sessions \ {A} : RecordKept(B)]_vars

\* B holds pending text and a transcript while A has been through append,
\* a pass and the clear that follows its result.
C17_OtherSessionKeptItsText ==
    \E A \in DOMAIN session_data : \E B \in DOMAIN session_data \ {A} :
        /\ session_data[B].text_buffer /= <<>>
        /\ session_data[B].full_text /= <<>>
        /\ session_data[A].text_buffer = <<>>
        /\ session_data[A].full_text /= <<>>
        /\ \E k \in DOMAIN out[A] : out[A][k].type = "result"

-----------------------------------------------------------------------------
(* The cap on the pending buffer *)

\* The handler of s waits in receive_text.
Waiting(s) == pc[s] = "recv" /\ s \in DOMAIN session_data

TrimmedLength(s) == Len(Strip(session_data[s].text_buffer))

LatestPassFailed(s) ==
    /\ passes[s] /= <<>>
    /\ LET p == passes[s][Len(passes[s])]
       IN  \/ p.outcome = "none"
           \/ /\ p.outcome = "result"
              /\ transport[s] = "closed"
              /\ \A k \in DOMAIN out[s] : out[s][k].by /= p.by

OverCapAfterFailedPass ==
    \E s \in Sessions :
        /\ Waiting(s)
        /\ TrimmedLength(s) > BufferCap
        /\ LatestPassFailed(s)

\* After a pass whose result was sent the buffer is empty again.
ClearedAfterOverCap ==
    \E s \in Sessions :
        /\ Waiting(s)
        /\ session_data[s].text_buffer = <<>>
        /\ Len(session_data[s].full_text) > BufferCap
        /\ \E k \in DOMAIN out[s] : out[s][k].type = "result"

-----------------------------------------------------------------------------
(* The policy *)

\* The calls of should_process_text made so far
PolicyCalls == {k \in DOMAIN calls : calls[k].op = "should_process_text"}

\* The characters of abbreviation a stand in text from position i on,
\* letters compared without regard to case.
OccursAt(text, i, a) ==
    /\ i + Len(a) - 1 <= Len(text)
    /\ \A k \in 1..Len(a) : Lower(text[i + k - 1]) = Lower(a[k])

\* Position j of text lies in an occurrence of an abbreviation of the list.
InOccurrence(text, j) ==
    \E n \in DOMAIN abbreviations : \E i \in 1..j :
        /\ OccursAt(text, i, abbreviations[n])
        /\ j <= i + Len(abbreviations[n]) - 1

Marks(text) == {j \in 1..Len(text) : text[j] \in sentence_endings}

\* C19: for any buffer whose only '.', '!' or '?' belong to occurrences of
\* the abbreviations of the list (matched case-insensitively, with their
\* trailing period) and whose trimmed length is at most 100, shouldProcess
\* returns false.
C19_AbbreviationPeriodsDoNotTrigger ==
    \A k \in PolicyCalls :
        (/\ \A j \in Marks(calls[k].text) : InOccurrence(calls[k].text, j)
         /\ Len(Strip(calls[k].text)) <= BufferCap)
        => calls[k].ret = FALSE

\* An abbreviation of the list stands at position i of text, starting on a
\* word boundary: no letter, digit or underscore before it.
MatchesAt(text, i) ==
    /\ i = 1 \/ ~IsWordChar(text[i - 1])
    /\ \E n \in DOMAIN abbreviations : OccursAt(text, i, abbreviations[n])

\* The length of the match at position i
MatchLen(text, i) ==
    Len(abbreviations[CHOOSE n \in DOMAIN abbreviations :
                          OccursAt(text, i, abbreviations[n])])

\* The starts of the matches the masking replaces: taken from the left, a
\* match that begins inside an earlier one is none.
MaskedStarts(text) ==
    LET candidates == {i \in 1..Len(text) : MatchesAt(text, i)}
    IN  CHOOSE S \in SUBSET candidates :
            \A i \in candidates :
                i \in S <=> ~\E q \in S : q < i /\ i < q + MatchLen(text, q)

\* Position j of text is replaced by the masking.
Masked(text, j) ==
    \E q \in MaskedStarts(text) : q <= j /\ j < q + MatchLen(text, q)

\* C19 as it holds: the periods have to lie in the matches the masking
\* finds -- abbreviations that start on a word boundary, taken from the left
\* without overlap.
C19_MaskedPeriodsDoNotTrigger ==
    \A k \in PolicyCalls :
        (/\ \A j \in Marks(calls[k].text) : Masked(calls[k].text, j)
         /\ Len(Strip(calls[k].text)) <= BufferCap)
        => calls[k].ret = FALSE

\* should_process_text has returned false for a buffer that holds a masked
\* abbreviation.
C19_AbbreviationBufferWaits ==
    \E k \in PolicyCalls :
        /\ calls[k].ret = FALSE
        /\ Marks(calls[k].text) /= {}
        /\ \A j \in Marks(calls[k].text) : Masked(calls[k].text, j)

\* Every period lies in an occurrence of an abbreviation, the occurrences
\* overlap, and the policy has returned true: "i.e.g."
OverlappingAbbreviationsTrigger ==
    \E k \in PolicyCalls :
        /\ calls[k].ret = TRUE
        /\ Len(calls[k].text) <= BufferCap
        /\ \A j \in Marks(calls[k].text) :
              \E i \in 1..j : /\ MatchesAt(calls[k].text, i)
                              /\ j < i + MatchLen(calls[k].text, i)

\* C20: shouldProcess returns true for any buffer that contains a '.', '!'
\* or '?' that is not part of a masked abbreviation, and for any buffer
\* whose trimmed length exceeds 100 whatever its punctuation; its result is
\* exactly the OR of the two conditions.
C20_ResultIsPunctuationOrLength ==
    \A k \in PolicyCalls :
        LET text == calls[k].text
            unmasked == \E j \in Marks(text) : ~Masked(text, j)
            too_long == Len(Strip(text)) > BufferCap
        IN  /\ unmasked => calls[k].ret = TRUE
            /\ too_long => calls[k].ret = TRUE
            /\ calls[k].ret = (unmasked \/ too_long)

\* The policy has returned true for a buffer that holds a masked
\* abbreviation and, after it, a period that is none.
C20_RealPeriodAfterAbbreviation ==
    \E k \in PolicyCalls :
        /\ calls[k].ret = TRUE
        /\ Len(Strip(calls[k].text)) <= BufferCap
        /\ \E i, j \in Marks(calls[k].text) :
              /\ i < j
              /\ Masked(calls[k].text, i)
              /\ ~Masked(calls[k].text, j)

\* The policy has returned true for a buffer of more than 100 characters
\* without any punctuation.
LongBufferWithoutPunctuation ==
    \E k \in PolicyCalls :
        /\ calls[k].ret = TRUE
        /\ Marks(calls[k].text) = {}
        /\ Len(Strip(calls[k].text)) = BufferCap + 1

-----------------------------------------------------------------------------
(* The success message *)

\* The success messages session s has sent
Results(s) == {k \in DOMAIN out[s] : out[s][k].type = "result"}

\* C21: in every outbound success message full_text is the cumulative
\* transcript of the session at the time of the pass (all text appended
\* since the last reset, the text of earlier chunks included),
\* original_text is the buffer before normalization, and current_chunk_text
\* equals processed_text.
C21_SuccessMessageFields ==
    \A s \in Sessions : \A k \in Results(s) :
        LET m == out[s][k]
        IN  /\ m.by \in DOMAIN handled[s]
            /\ m.full_text = AppendedSinceReset(SubSeq(handled[s], 1, m.by))
            /\ \E i \in DOMAIN passes[s] :
                  /\ passes[s][i].by = m.by
                  /\ passes[s][i].text = m.original_text
            /\ m.processed_text = CleanText(m.original_text)
            /\ m.current_chunk_text = m.processed_text

\* connect, {"text": " "}, {"text": "Hello Dr. Smith."}: exactly one success
\* message, with processed_text and full_text "Hello Dr. Smith."
C21_HelloDrSmith ==
    \E s \in DOMAIN session_data :
        LET hello == <<"H", "e", "l", "l", "o", " ", "D", "r", ".", " ",
                       "S", "m", "i", "t", "h", ".">>
        IN  /\ pc[s] = "recv"
            /\ inbox[s] = <<>>
            /\ Len(handled[s]) = 2
            /\ handled[s][1].payload = TextMsg(InitMarker)
            /\ handled[s][2].payload = TextMsg(hello)
            /\ out[s] = <<ResultMessage(2, hello, hello, hello)>>

\* The success message of a second chunk carries the text of both chunks.
SecondChunkCarriesTranscript ==
    \E s \in Sessions : \E k \in Results(s) : \E j \in Results(s) :
        /\ j < k
        /\ out[s][k].full_text = out[s][j].original_text \o out[s][k].original_text
        /\ out[s][k].full_text /= out[s][k].processed_text

-----------------------------------------------------------------------------
(* The normalizer *)

\* The calls of _clean_text made so far
CleanCalls == {k \in DOMAIN calls : calls[k].op = "_clean_text"}

\* part stands somewhere in text
Contains(text, part) ==
    \E i \in 1..(Len(text) - Len(part) + 1) :
        SubSeq(text, i, i + Len(part) - 1) = part

\* The documented spoken form of a LaTeX command
LatexPhrase(form, a, b) ==
    CASE form = "frac" -> a \o <<" ", "o", "v", "e", "r", " ">> \o b
      [] form = "sqrt" ->
            <<"s", "q", "u", "a", "r", "e", " ", "r", "o", "o", "t", " ", "o", "f", " ">>
              \o a
      [] form = "power" ->
            a \o <<" ", "t", "o", " ", "t", "h", "e", " ", "p", "o", "w", "e", "r",
                   " ", "o", "f", " ">> \o b
      [] form = "subscript" ->
            a \o <<" ", "s", "u", "b", "s", "c", "r", "i", "p", "t", " ">> \o b
      [] form = "sum" ->
            <<"s", "u", "m", " ", "f", "r", "o", "m", " ">> \o a
              \o <<" ", "t", "o", " ">> \o b
      [] form = "int" ->
            <<"i", "n", "t", "e", "g", "r", "a", "l", " ", "f", "r", "o", "m", " ">> \o a
              \o <<" ", "t", "o", " ">> \o b

\* C22: normalize rewrites the LaTeX commands to their spoken form: for
\* brace-free arguments a and b the normalization of \frac{a}{b} contains
\* "a over b", and \sqrt{x}, x^{y}, x_{y}, \sum_{a}^{b}, \int_{a}^{b} give
\* their documented phrases; the spelling of brackets does not interfere.
C22_LatexCommandsSpoken ==
    \A k \in CleanCalls :
        \A form \in LatexForms : \A a \in LatexArgs : \A b \in LatexArgs :
            calls[k].text = LatexText(form, a, b) =>
                Contains(calls[k].ret, LatexPhrase(form, a, b))

\* The braces of a LaTeX command are spelled before the command is looked
\* for: _clean_text has returned a text with "open brace" and without the
\* phrase.
LatexBracesSpelled ==
    \E k \in CleanCalls :
        \E form \in LatexForms : \E a \in LatexArgs : \E b \in LatexArgs :
            /\ calls[k].text = LatexText(form, a, b)
            /\ Contains(calls[k].ret, <<"o", "p", "e", "n", " ", "b", "r", "a", "c", "e">>)
            /\ ~Contains(calls[k].ret, LatexPhrase(form, a, b))

\* process_latex_expressions alone, on the text as it came, gives the
\* phrases of \frac, \sqrt, x^{y} and x_{y}; the subscript rule takes the
\* "sum_{a}" and "int_{a}" of the two others before their own rules run.
LatexAloneSpoken ==
    \A k \in CleanCalls :
        \A form \in LatexForms : \A a \in LatexArgs : \A b \in LatexArgs :
            calls[k].text = LatexText(form, a, b) =>
                (Contains(process_latex_expressions(calls[k].text),
                          LatexPhrase(form, a, b))
                    <=> form \notin {"sum", "int"})

Hyphens(text) == {i \in DOMAIN text : text[i] = "-"}

IsMinusAt(text, j) == StartsWithAt(text, j, <<"m", "i", "n", "u", "s">>)

\* Where the result holds a hyphen or the word "minus"; the texts given to
\* the normalizer hold no "minus", and the steps keep the order of the text.
HyphenEvents(ret) == {j \in DOMAIN ret : ret[j] = "-" \/ IsMinusAt(ret, j)}

\* The hyphen at i of text stands as "minus" in the result ret.
TurnedToMinus(text, ret, i) ==
    LET n == Cardinality({h \in Hyphens(text) : h <= i})
    IN  /\ Cardinality(HyphenEvents(ret)) >= n
        /\ IsMinusAt(ret, Nth(HyphenEvents(ret), n))

\* The nearest character before and after i that is no whitespace, or 0
PrevSolid(text, i) ==
    LET solid == {j \in 1..(i - 1) : ~IsSpace(text[j])}
    IN  IF solid = {} THEN 0 ELSE Max(solid)

NextSolid(text, i) ==
    LET solid == {j \in (i + 1)..Len(text) : ~IsSpace(text[j])}
    IN  IF solid = {} THEN 0 ELSE Min(solid)

\* digit-hyphen-digit, with optional spaces around the hyphen
DigitContext(text, i) ==
    LET p == PrevSolid(text, i)
        n == NextSolid(text, i)
    IN  p > 0 /\ n > 0 /\ IsDigit(text[p]) /\ IsDigit(text[n])

\* single-letter-hyphen-alnum, with optional spaces around the hyphen
LetterContext(text, i) ==
    LET p == PrevSolid(text, i)
        n == NextSolid(text, i)
    IN  /\ p > 0 /\ n > 0
        /\ IsAlpha(text[p])
        /\ (p = 1 \/ ~(IsAlpha(text[p - 1]) \/ IsDigit(text[p - 1])))
        /\ (IsAlpha(text[n]) \/ IsDigit(text[n]))

\* a hyphen with a character of the set on both sides
Between(text, i, chars) ==
    /\ i > 1 /\ i < Len(text)
    /\ text[i - 1] \in chars
    /\ text[i + 1] \in chars

MathContext(text, i) ==
    DigitContext(text, i) \/ LetterContext(text, i) \/ Between(text, i, Space)

BracketChars == {"(", ")", "[", "]", "{", "}"}

\* The contexts as the hyphen step finds them: a bracket has been spelled
\* with a space on each side before.
SpokenContext(text, i) ==
    \/ DigitContext(text, i)
    \/ LetterContext(text, i)
    \/ Between(text, i, Space \cup BracketChars)

WellKnown == <<"w", "e", "l", "l", "-", "k", "n", "o", "w", "n">>

FiveMinusThree == <<"5", " ", "-", " ", "3", " ", "=", " ", "2">>

\* The documented examples of the hyphen rule: "well-known", "3/4", and
\* the buffer "5 - 3 = 2" synthesized by a flush.
HyphenExamples ==
    /\ \A k \in CleanCalls :
        /\ calls[k].text = WellKnown => calls[k].ret = WellKnown
        /\ calls[k].text = <<"3", "/", "4">> =>
              Contains(calls[k].ret, <<"3", " ", "o", "v", "e", "r", " ", "4">>)
    /\ \A s \in Sessions : \A k \in Results(s) :
        (/\ out[s][k].original_text = FiveMinusThree
         /\ Flushes(handled[s][out[s][k].by].payload)) =>
            Contains(out[s][k].processed_text,
                     <<"5", " ", "m", "i", "n", "u", "s", " ", "3", " ",
                       "e", "q", "u", "a", "l", "s", " ", "2">>)

\* Every hyphen of the text is kept or spoken, and it is spoken only where
\* context(text, i) holds.
HyphenSpokenOnlyIn(context(_, _)) ==
    \A k \in CleanCalls :
        /\ Cardinality(HyphenEvents(calls[k].ret)) = Cardinality(Hyphens(calls[k].text))
        /\ \A i \in Hyphens(calls[k].text) :
              TurnedToMinus(calls[k].text, calls[k].ret, i) =>
                  context(calls[k].text, i)

\* C23 (as stated): normalize turns a hyphen into "minus" only in the
\* mathematical contexts (digit-hyphen-digit, single-letter-hyphen-alnum, a
\* hyphen with whitespace on both sides) and leaves the hyphen of
\* "well-known" unchanged; "3/4" gives "3 over 4", and the buffer
\* "5 - 3 = 2" synthesized by a flush gives a processed_text that contains
\* "5 minus 3 equals 2".
C23_MinusOnlyInMathContext == HyphenSpokenOnlyIn(MathContext) /\ HyphenExamples

\* C23 (amended): as above, where a bracket next to the hyphen counts as
\* whitespace, since brackets are spelled with a space on each side before
\* the hyphen step runs.
C23_MinusOnlyInSpokenContext == HyphenSpokenOnlyIn(SpokenContext) /\ HyphenExamples

\* The buffer "5 - 3 = 2" has been synthesized by a flush, and the result
\* sent says "5 minus 3 equals 2".
C23_FlushedDifferenceSpoken ==
    \E s \in Sessions : \E k \in Results(s) :
        /\ out[s][k].original_text = FiveMinusThree
        /\ Flushes(handled[s][out[s][k].by].payload)
        /\ out[s][k].processed_text =
              <<"5", " ", "m", "i", "n", "u", "s", " ", "3", " ",
                "e", "q", "u", "a", "l", "s", " ", "2">>

\* A hyphen between two brackets has been spoken as "minus".
HyphenBetweenBracketsSpoken ==
    \E k \in CleanCalls : \E i \in Hyphens(calls[k].text) :
        /\ TurnedToMinus(calls[k].text, calls[k].ret, i)
        /\ ~MathContext(calls[k].text, i)
        /\ Between(calls[k].text, i, BracketChars)

\* The control characters of the model's texts
ControlChars == {BEL, "\t", "\n", "\r", "\f"}

\* No whitespace at either end and no two whitespace characters in a row
WhitespaceNormal(text) ==
    /\ text /= <<>> => ~IsSpace(text[1]) /\ ~IsSpace(text[Len(text)])
    /\ \A i \in 1..(Len(text) - 1) : ~(IsSpace(text[i]) /\ IsSpace(text[i + 1]))

\* C24: for every input text the output of normalize contains no control
\* character, has no leading or trailing whitespace and no run of two or
\* more whitespace characters, and the whitespace-collapse step applied to
\* it again changes nothing.
C24_OutputClean ==
    \A k \in CleanCalls :
        /\ \A i \in DOMAIN calls[k].ret : calls[k].ret[i] \notin ControlChars
        /\ WhitespaceNormal(calls[k].ret)
        /\ Apply(CollapseSpaces, calls[k].ret) = calls[k].ret

\* The part of it that holds: the whitespace of the output
OutputWhitespaceNormal ==
    \A k \in CleanCalls :
        /\ \A i \in DOMAIN calls[k].ret : calls[k].ret[i] \notin {"\t", "\n", "\r", "\f"}
        /\ WhitespaceNormal(calls[k].ret)
        /\ Apply(CollapseSpaces, calls[k].ret) = calls[k].ret

\* A control character that is no whitespace stands in the output.
ControlCharacterKept ==
    \E k \in CleanCalls : \E i \in DOMAIN calls[k].ret : calls[k].ret[i] = BEL

\* Whitespace of the input has been collapsed or trimmed.
WhitespaceCollapsed ==
    \E k \in CleanCalls :
        /\ ~WhitespaceNormal(calls[k].text)
        /\ calls[k].ret /= <<>>

-----------------------------------------------------------------------------
(* The alignments *)

AlignCalls == {k \in DOMAIN calls : calls[k].op = "alignment"}

\* The sum of a sequence of integer times, each taken as low or as high as
\* it can come out
LowSum(q) == SumSeq([i \in DOMAIN q |-> Min(q[i])])

HighSum(q) == SumSeq([i \in DOMAIN q |-> Max(q[i])])

\* The sum of the durations q is the total duration, of T samples, within
\* one millisecond for each of its units.
SumsToTotal(q, T) ==
    /\ TicksPerMs * HighSum(q) <= T + TicksPerMs * Len(q)
    /\ TicksPerMs * LowSum(q) >= T - TicksPerMs * Len(q)

NonDecreasing(q) == \A i \in DOMAIN q : \A j \in DOMAIN q : i < j => Max(q[i]) <= Min(q[j])

NoneNegative(q) == \A i \in DOMAIN q : \A v \in q[i] : v >= 0

\* C25: for a non-empty normalized text and a non-empty sequence of timing
\* records, the durations of the characters sum to the total duration (the
\* end of the last record) and so do the durations of the words, each
\* within 1 ms for each unit; no duration is negative; the start times of
\* the characters and those of the words never decrease.
C25_DurationsSumToTotal ==
    \A k \in AlignCalls :
        LET text == calls[k].text
            ret == calls[k].ret
            total == total_duration(ret.phoneme_timings)
        IN  (text /= <<>> /\ WhitespaceNormal(text) /\ ret.phoneme_timings /= <<>>) =>
                /\ Len(ret.char_durations_ms) = Len(text)
                /\ Len(ret.word_durations_ms) = Len(Words(text))
                /\ SumsToTotal(ret.char_durations_ms, total)
                /\ SumsToTotal(ret.word_durations_ms, total)
                /\ NoneNegative(ret.char_durations_ms)
                /\ NoneNegative(ret.word_durations_ms)
                /\ NonDecreasing(ret.char_start_times_ms)
                /\ NonDecreasing(ret.word_start_times_ms)

\* Three words of unlike lengths have shared a total of more than 80 ms,
\* and the whole milliseconds of their durations fall short of it.
C25_ThreeWordsShareTotal ==
    \E k \in AlignCalls :
        /\ Len(calls[k].ret.words) = 3
        /\ total_duration(calls[k].ret.phoneme_timings) = 2000
        /\ calls[k].ret.word_durations_ms = << {20}, {41}, {20} >>
        /\ calls[k].ret.word_start_times_ms = << {0}, {20}, {62} >>
        /\ Len(calls[k].ret.char_durations_ms) = 6

\* Every integer time of the sequence q is 0.
AllZero(q) == \A i \in DOMAIN q : q[i] = {0}

EmptyTextUnaligned ==
    \A k \in AlignCalls :
        calls[k].text = <<>> =>
            /\ calls[k].ret.char_start_times_ms = <<>>
            /\ calls[k].ret.char_durations_ms = <<>>
            /\ calls[k].ret.words = <<>>
            /\ calls[k].ret.word_start_times_ms = <<>>
            /\ calls[k].ret.word_durations_ms = <<>>

\* C26 (as stated): an empty text gives empty character and word
\* alignments; when the total duration is 0 (the timing sequence is empty,
\* or its last record ends at 0) every character record and every word
\* record has the start 0 and the duration 0.
C26_ZeroTotalAllZero ==
    /\ EmptyTextUnaligned
    /\ \A k \in AlignCalls :
          total_duration(calls[k].ret.phoneme_timings) = 0 =>
              /\ AllZero(calls[k].ret.char_start_times_ms)
              /\ AllZero(calls[k].ret.char_durations_ms)
              /\ AllZero(calls[k].ret.word_start_times_ms)
              /\ AllZero(calls[k].ret.word_durations_ms)

\* C26 (amended): an empty text gives empty alignments; when the timing
\* sequence is not empty and its last record ends at 0, every record has
\* the start 0 and the duration 0, one record for each character and for
\* each word; when the timing sequence is empty, there is no word record,
\* and the i-th character (counted from 0) has the start 100 * i and the
\* duration 100.
C26_ZeroTotalOrFallback ==
    /\ EmptyTextUnaligned
    /\ \A k \in AlignCalls :
          LET text == calls[k].text
              ret == calls[k].ret
          IN  /\ (ret.phoneme_timings /= <<>> /\ total_duration(ret.phoneme_timings) = 0) =>
                    /\ Len(ret.char_durations_ms) = Len(text)
                    /\ Len(ret.word_durations_ms) = Len(Words(text))
                    /\ AllZero(ret.char_start_times_ms)
                    /\ AllZero(ret.char_durations_ms)
                    /\ AllZero(ret.word_start_times_ms)
                    /\ AllZero(ret.word_durations_ms)
              /\ ret.phoneme_timings = <<>> =>
                    /\ ret.words = <<>>
                    /\ ret.word_start_times_ms = <<>>
                    /\ ret.word_durations_ms = <<>>
                    /\ ret.char_start_times_ms =
                          [i \in DOMAIN text |-> {FallbackCharDuration * (i - 1)}]
                    /\ ret.char_durations_ms =
                          [i \in DOMAIN text |-> {FallbackCharDuration}]

\* The text "3 5" has been aligned without a timing record: 100 ms for
\* each of its three characters, and no word.
C26_FallbackWithoutTimings ==
    \E k \in AlignCalls :
        /\ calls[k].text = <<"3", " ", "5">>
        /\ calls[k].ret.phoneme_timings = <<>>
        /\ calls[k].ret.char_start_times_ms = << {0}, {100}, {200} >>
        /\ calls[k].ret.char_durations_ms = << {100}, {100}, {100} >>
        /\ calls[k].ret.words = <<>>

\* A text of three words has been aligned to records that end at 0.
ZeroTotalAligned ==
    \E k \in AlignCalls :
        /\ calls[k].ret.phoneme_timings /= <<>>
        /\ total_duration(calls[k].ret.phoneme_timings) = 0
        /\ Len(calls[k].ret.word_durations_ms) = 3
        /\ AllZero(calls[k].ret.word_durations_ms)
        /\ AllZero(calls[k].ret.char_start_times_ms)

-----------------------------------------------------------------------------
(* The encoder *)

EncodeCalls == {k \in DOMAIN calls : calls[k].op = "_audio_to_base64"}

\* The sample clamped to [-1, 1]
Clamped(sample) == Max({-SampleDen, Min({SampleDen, sample})})

\* C27: the encoder clips every sample to the valid range before it scales
\* to 16-bit signed PCM: for every sample, one beyond unit amplitude
\* included, the quantized value is the scaled value of the sample clamped
\* to [-1, 1], and never wraps around the 16-bit range.
C27_EncoderClips ==
    \A k \in EncodeCalls :
        calls[k].ret.pcm = TruncDiv(Clamped(calls[k].ret.sample) * PcmScale, SampleDen)

\* Within unit amplitude the quantized value is the scaled sample.
EncoderScalesInRange ==
    \A k \in EncodeCalls :
        Clamped(calls[k].ret.sample) = calls[k].ret.sample =>
            calls[k].ret.pcm = TruncDiv(calls[k].ret.sample * PcmScale, SampleDen)

\* The sample 1.5 has come out as -16386: 49150 wrapped around.
EncoderWraps ==
    \E k \in EncodeCalls :
        /\ calls[k].ret.sample = 6
        /\ calls[k].ret.pcm = -16386

-----------------------------------------------------------------------------
(* Transcript, outbound messages and registry of the running service *)

\* The number of the last init or reset message in the history h, or 0
LastReset(h) == Max({0} \cup {i \in DOMAIN h : Resets(h[i].payload)})

\* The original_text fields of the success messages among the first n of
\* q that answer a message after number r, one after the other
RECURSIVE EmittedText(_, _, _)
EmittedText(q, n, r) ==
    IF n = 0 THEN <<>>
    ELSE EmittedText(q, n - 1, r)
           \o (IF q[n].type = "result" /\ q[n].by > r THEN q[n].original_text
               ELSE <<>>)

\* C28: no appended text is lost or synthesized twice: in every reachable
\* state the transcript of a session is the concatenation, in the order of
\* emission, of the original_text fields of the success messages emitted
\* since the last init or reset, followed by the buffer, whatever appends,
\* flushes and failed passes there have been.
C28_TranscriptIsEmittedThenBuffer ==
    \A s \in DOMAIN session_data :
        session_data[s].full_text =
            EmittedText(out[s], Len(out[s]), LastReset(handled[s]))
              \o session_data[s].text_buffer

\* A pass has failed, its text has stayed in the buffer, and a later pass
\* has emitted it together with what was appended after.
C28_EmittedAfterFailedPass ==
    \E s \in DOMAIN session_data :
        \E i \in DOMAIN passes[s] : \E k \in Results(s) :
            /\ passes[s][i].outcome = "none"
            /\ out[s][k].by > passes[s][i].by
            /\ Len(out[s][k].original_text) > Len(passes[s][i].text)
            /\ session_data[s].full_text = out[s][k].original_text
            /\ session_data[s].text_buffer = <<>>

\* Text has been emitted, and other text waits in the buffer.
EmittedAndBuffered ==
    \E s \in DOMAIN session_data :
        /\ Results(s) /= {}
        /\ session_data[s].text_buffer /= <<>>
        /\ LastReset(handled[s]) = 0

\* The outbound messages of s that answer its message number k
AnswersTo(s, k) == {j \in DOMAIN out[s] : out[s][j].by = k}

\* The message number k of s has started no pass.
StartedNoPass(s, k) == \A i \in DOMAIN passes[s] : passes[s][i].by /= k

\* No inbound message is answered twice.
AtMostOneAnswer ==
    \A s \in Sessions : \A k \in DOMAIN handled[s] : Cardinality(AnswersTo(s, k)) <= 1

\* An append that leaves a buffer the policy does not process starts no
\* pass and sends nothing.
QuietAppendStartsNoPass ==
    [][\A s \in Sessions :
          (/\ Handles(s)
           /\ Appends(NextFrame(s).payload)
           /\ ~should_process_text(
                  add_text_chunk(session_data, s, NextFrame(s).payload.text), s)) =>
              /\ passes' = passes
              /\ out' = out
              /\ pc'[s] = "recv"]_vars

\* C29: each inbound message of a session causes at most one outbound
\* message to be delivered to the client (a result or an error, never both,
\* never two errors); init, reset, unrecognized and non-triggering append
\* messages cause none.
C29_AtMostOneAnswerAndQuietMessages ==
    /\ [](/\ AtMostOneAnswer
          /\ \A s \in Sessions : \A k \in DOMAIN handled[s] :
                LET p == handled[s][k].payload
                IN  (\/ Resets(p)
                     \/ UnrecognizedShape(p)
                     \/ Appends(p) /\ StartedNoPass(s, k)) => AnswersTo(s, k) = {})
    /\ QuietAppendStartsNoPass

\* What holds of it: no message is answered twice, and init, reset,
\* unrecognized objects and non-triggering appends are not answered.
AnswersOfObjects ==
    /\ [](/\ AtMostOneAnswer
          /\ \A s \in Sessions : \A k \in DOMAIN handled[s] :
                LET p == handled[s][k].payload
                IN  (\/ Resets(p)
                     \/ UnrecognizedShape(p) /\ p.obj
                     \/ Appends(p) /\ StartedNoPass(s, k)) => AnswersTo(s, k) = {})
    /\ QuietAppendStartsNoPass

\* A JSON value that is no object has one answer, an error.
NonObjectHasOneAnswer ==
    \E s \in Sessions : \E k \in DOMAIN handled[s] :
        /\ handled[s][k].payload.valid
        /\ ~handled[s][k].payload.obj
        /\ Cardinality(AnswersTo(s, k)) = 1
        /\ \A j \in AnswersTo(s, k) : out[s][j].type = "error"

\* C30: the connection map and the session-data map always have the same
\* keys, and only connect creates a record: once the record of a session
\* has been removed (by disconnect, or by the cleanup of all connections at
\* shutdown, possibly while the loop of the session is still running), no
\* later initialize, append, clearBuffer or synthesis step of that session
\* creates it again, and readBuffer returns the empty string.
C30_OnlyConnectCreatesRecord ==
    /\ [](/\ DOMAIN session_data = active_connections
          /\ \A s \in Sessions \ DOMAIN session_data :
                get_text_buffer(session_data, s) = <<>>)
    /\ [][\A s \in Sessions :
             /\ (~Present(s) /\ Present(s)') =>
                   /\ pc[s] = "new"
                   /\ pc'[s] = "recv"
                   /\ session_data'[s] = NewSessionRecord
             /\ (~Present(s) /\ pc[s] /= "new") =>
                   /\ ~Present(s)'
                   /\ passes'[s] = passes[s]]_vars

\* The record of a session has been removed at shutdown while its loop was
\* waiting, and the loop has then taken an append that would have started a
\* pass: there is no record, and no pass.
C30_AppendAfterRemoval ==
    \E s \in Sessions : \E k \in DOMAIN handled[s] :
        /\ ~ready
        /\ ~Present(s)
        /\ pc[s] = "recv"
        /\ Appends(handled[s][k].payload)
        /\ ShouldProcess(handled[s][k].payload.text)
        /\ StartedNoPass(s, k)

\* The step calls no backend and delivers nothing.
NothingSynthesized ==
    /\ passes' = passes
    /\ running' = running
    /\ out' = out

\* C31: a synthesis pass requested by a flush, by a close or by the policy
\* while the buffer is empty or holds only whitespace does nothing: the
\* backend is not called, no outbound message is emitted, and buffer and
\* transcript are unchanged.  (After a close the loop ends and the record
\* is removed as it is; an append has put its text into buffer and
\* transcript before the policy is asked.)
C31_BlankBufferPassDoesNothing ==
    /\ [](\A s \in Sessions : \A i \in DOMAIN passes[s] : ~IsBlank(passes[s][i].text))
    /\ [][\A s \in Sessions :
             Handles(s) =>
                LET p == NextFrame(s).payload IN
                /\ (Flushes(p) /\ IsBlank(get_text_buffer(session_data, s))) =>
                      /\ NothingSynthesized
                      /\ session_data' = session_data
                      /\ active_connections' = active_connections
                      /\ pc'[s] = "recv"
                /\ (Closes(p) /\ IsBlank(get_text_buffer(session_data, s))) =>
                      /\ NothingSynthesized
                      /\ session_data' = disconnect(session_data, s)
                      /\ pc'[s] = "closed"
                /\ (/\ Appends(p)
                    /\ IsBlank(get_text_buffer(
                          add_text_chunk(session_data, s, p.text), s))) =>
                      /\ NothingSynthesized
                      /\ session_data' = add_text_chunk(session_data, s, p.text)
                      /\ active_connections' = active_connections
                      /\ pc'[s] = "recv"]_vars

\* A flush has been handled on a buffer of two blanks: the blanks are
\* still in buffer and transcript, no pass has run, nothing has been sent.
C31_FlushOnWhitespace ==
    \E s \in DOMAIN session_data :
        /\ Len(handled[s]) = 2
        /\ Flushes(handled[s][2].payload)
        /\ session_data[s].text_buffer = <<" ", " ">>
        /\ session_data[s].full_text = <<" ", " ">>
        /\ passes[s] = <<>>
        /\ out[s] = <<>>
        /\ pc[s] = "recv"

\* A close has been handled on an empty buffer: the loop has ended with no
\* pass and no message.
CloseOnEmptyBuffer ==
    \E s \in Sessions :
        /\ Len(handled[s]) = 1
        /\ Closes(handled[s][1].payload)
        /\ pc[s] = "closed"
        /\ passes[s] = <<>>
        /\ out[s] = <<>>

====
